---------------------------- MODULE Spec2Model ----------------------------
(***************************************************************************)
(* MandelBro: the fractal terrain engine (mandelbrot.py) and the asset     *)
(* placement engine (asset_generator.py).                                  *)
(*                                                                         *)
(* Numbers.  The program computes on IEEE doubles.  Here a real number r   *)
(* is the integer floor(r * Q) ("fixed point", Q units per 1.0), products  *)
(* are rounded down to the grid after every multiplication, and a height   *)
(* (an integer count divided by max_iterations) is kept as the exact       *)
(* fraction count/max_iterations in lowest terms.                          *)
(*                                                                         *)
(* Spec       the life of one MandelbrotGenerator object                   *)
(* AssetSpec  the life of one AssetGenerator object and of numpy's global  *)
(*            random state                                                 *)
(***************************************************************************)
EXTENDS Integers, Sequences, FiniteSets, TLC

\* ------------------------------------------------------------------ bounds
Q == 1000              \* fixed-point units per 1.0
MaxW == 2              \* largest grid width constructed
MaxH == 2              \* largest grid height constructed
MaxIter == 3           \* largest max_iterations passed by a caller
MaxCalls == 2          \* calls made on one generator object
PatW == 3              \* width of the patterned height maps
PatH == 3              \* height of the patterned height maps
BigSide == 10          \* side of the large flat height map
MaxSeed == 1           \* largest seed passed by a caller
MaxReplays == 2        \* returns of the watched call that are followed
MeshW == 3             \* largest width of a height map turned into a mesh
MeshH == 3             \* largest height of a height map turned into a mesh
RngMod == 8            \* states of the random generator
MaxWords == 3          \* typed words of a description
DepW == 7              \* width of the maps searched for depressions
DepH == 6              \* height of the maps searched for depressions
EvenSide == 120        \* side of the map whose neighbourhood side is even

\* ------------------------------------------------------- program constants
EscapeRadius == 2            \* np.abs(z) > 2.0
BlockyMaxIterations == 50    \* params['max_iterations'] = 50
QuantLevels == 10            \* np.floor(height_map * 10) / 10
DefaultScaleFactor == 50     \* convert_to_3d_mesh_data(..., scale_factor=50.0)

VARIABLES
  \* MandelbrotGenerator fields
  width, height, max_iterations, center_x, center_y, zoom,
  \* the call in progress and the locals of calculate_mandelbrot
  pc, call, c, z, output, mask, i,
  \* what the last call returned, and how many calls were made
  ret, ncalls

VARIABLES
  \* AssetGenerator.asset_types, the caller's height map array, and numpy's
  \* global random state
  asset_types, height_map, np_state,
  \* the AssetGenerator call that has returned and what it returned
  acall, aret,
  \* a call chosen to be watched, what it returned the first time, how often
  \* it has returned, and whether another call returned after its first return
  probe, probe_ret, probe_n, probe_gap

VARIABLES
  \* the description given to process_description and the parameters it
  \* returned, and what range() over the returned max_iterations did
  nlp_description, nlp_params, nlp_range

assetVars == <<asset_types, height_map, np_state, acall, aret,
               probe, probe_ret, probe_n, probe_gap>>

nlpVars == <<nlp_description, nlp_params, nlp_range>>

\* No description has been processed
NlpIdle ==
  /\ nlp_description = <<>>
  /\ nlp_params = <<>>
  /\ nlp_range = "none"

genFields == <<width, height, max_iterations, center_x, center_y, zoom>>
loopVars == <<c, z, output, mask, i>>
genVars == <<width, height, max_iterations, center_x, center_y, zoom,
             pc, call, c, z, output, mask, i, ret, ncalls>>

\* ------------------------------------------------------------- arithmetic
\* d/10^k as a fixed-point number
Dec(n, den) == (n * Q) \div den

RECURSIVE Gcd(_, _)
Gcd(a, b) == IF b = 0 THEN a ELSE Gcd(b, a % b)

Abs(a) == IF a < 0 THEN -a ELSE a

NaN == [nan |-> TRUE, num |-> 0, den |-> 1]

\* The double n/d of numpy's true division of an int array by a Python int:
\* 0/0 is nan (a RuntimeWarning, no exception); the counts of this program
\* are 0 whenever d is 0.
Frac(n, d) ==
  IF d = 0 THEN NaN
  ELSE LET g == Gcd(Abs(n), Abs(d))
           s == IF d < 0 THEN -1 ELSE 1
       IN [nan |-> FALSE, num |-> (s * n) \div g, den |-> (s * d) \div g]

\* np.floor(h * 10) / 10
Quantize(h) ==
  IF h.nan THEN NaN
  ELSE Frac((QuantLevels * h.num) \div h.den, QuantLevels)

\* --------------------------------------------------- calculate_mandelbrot
Cells(w, h) == (0 .. h - 1) \X (0 .. w - 1)

\* np.linspace(a, b, n)[j], n >= 1
Linspace(a, b, n, j) == IF n = 1 THEN a ELSE a + (j * (b - a)) \div (n - 1)

\* c = real + imag * 1j over np.meshgrid(linspace(x..., width), linspace(y..., height))
Grid(x_min, x_max, y_min, y_max, w, h) ==
  [p \in Cells(w, h) |->
     [re |-> Linspace(x_min, x_max, w, p[2]),
      im |-> Linspace(y_min, y_max, h, p[1])]]

Zero == [re |-> 0, im |-> 0]

\* z**2 + c
SqAdd(zz, cc) ==
  [re |-> (zz.re * zz.re - zz.im * zz.im) \div Q + cc.re,
   im |-> (2 * zz.re * zz.im) \div Q + cc.im]

\* np.abs(z) > 2.0
Diverged(zz) ==
  zz.re * zz.re + zz.im * zz.im > EscapeRadius * EscapeRadius * Q * Q

\* The cells the statement output[diverged & mask] = i writes
WrittenAlways(div, m) == div
Written(div, m) == div \cap m

\* One pass of the loop body, lines 68-74, on the locals st = [z, output, mask]
LoopBody(st, cc, k) ==
  LET cells == DOMAIN cc
      z1 == [p \in cells |-> IF p \in st.mask THEN SqAdd(st.z[p], cc[p]) ELSE st.z[p]]
      div == {p \in cells : Diverged(z1[p])}
      wr == Written(div, st.mask)
  IN [z |-> z1,
      output |-> [p \in cells |-> IF p \in wr THEN k ELSE st.output[p]],
      mask |-> st.mask \ div]

\* output[mask] = self.max_iterations
FillOnePastCap(out, m, n) == [p \in DOMAIN out |-> IF p \in m THEN n + 1 ELSE out[p]]
FillNeverEscaped(out, m, n) == [p \in DOMAIN out |-> IF p \in m THEN n ELSE out[p]]

\* height_map = iterations / self.max_iterations
Normalize(out, n) == [p \in DOMAIN out |-> Frac(out[p], n)]


\* ------------------------------------------------------------ the inputs
Keys == {"center_x", "center_y", "zoom", "max_iterations"}

\* A custom_params dict: the keys it holds and their values (0 for a key it
\* does not hold).  None and {} are both the dict with no keys.
ParamDict(keys, cx, cy, zm, it) ==
  [keys |-> keys,
   center_x |-> IF "center_x" \in keys THEN cx ELSE 0,
   center_y |-> IF "center_y" \in keys THEN cy ELSE 0,
   zoom |-> IF "zoom" \in keys THEN zm ELSE 0,
   max_iterations |-> IF "max_iterations" \in keys THEN it ELSE 0]

NoParams == ParamDict({}, 0, 0, 0, 0)

CenterXArgs == {0}
CenterYArgs == {Dec(5, 10)}
ZoomArgs == {-Q, 0, 2 * Q}
IterArgs == {-1, 0, 1, MaxIter}

\* The dicts tried: a centre is given whole or not at all
KeySets == {k \in SUBSET Keys : "center_x" \in k <=> "center_y" \in k}

CustomParams ==
  {ParamDict(k, cx, cy, zm, it) :
     k \in KeySets, cx \in CenterXArgs, cy \in CenterYArgs,
     zm \in ZoomArgs, it \in IterArgs}

\* The constructor's (width, height): the valid sizes, and each size with
\* one non-positive side
Dims ==
  {d \in (-1 .. MaxW) \X (-1 .. MaxH) :
     \/ d[1] >= 1 /\ d[2] >= 1
     \/ d[1] <= 0 /\ d[2] = 1
     \/ d[1] = 1 /\ d[2] <= 0}

\* A description, as the set of the keywords that occur in it: none, one
\* keyword of each branch, and a blocky world of another branch
Descriptions ==
  {{}, {"mountain"}, {"water"}, {"desert"}, {"jungle"}, {"underground"},
   {"island"}, {"minecraft"}, {"blocky"}, {"mountain", "blocky"},
   {"cave", "minecraft"}}

Has(d, words) == d \cap words # {}

\* -------------------------------------------------- generate_height_map
EmptyGrid == [p \in {} |-> Zero]
NoCall == [op |-> "none", params |-> NoParams, description |-> {}]
NoRet == [kind |-> "none", error |-> "", height_map |-> EmptyGrid,
          parameters |-> NoParams]
Raised(e, params) == [kind |-> "error", error |-> e, height_map |-> EmptyGrid,
                      parameters |-> params]

\* Lines 94-112 and 55-64: the fields take the custom parameters, the window
\* is computed (1.5 / 0 raises ZeroDivisionError), the grid is built
\* (np.linspace raises ValueError for a negative number of samples) and the
\* loop is entered.  An exception leaves the fields as assigned so far.
Enter(params, cl) ==
  LET cx == IF "center_x" \in params.keys THEN params.center_x ELSE center_x
      cy == IF "center_y" \in params.keys THEN params.center_y ELSE center_y
      zm == IF "zoom" \in params.keys THEN params.zoom ELSE zoom
      it == IF "max_iterations" \in params.keys
            THEN params.max_iterations ELSE max_iterations
  IN /\ center_x' = cx
     /\ center_y' = cy
     /\ zoom' = zm
     /\ max_iterations' = it
     /\ call' = cl
     /\ ncalls' = ncalls + 1
     /\ UNCHANGED <<width, height>>
     /\ IF zm = 0
        THEN /\ ret' = Raised("ZeroDivisionError", NoParams)
             /\ pc' = "idle"
             /\ UNCHANGED loopVars
        ELSE IF width < 0 \/ height < 0
        THEN /\ ret' = Raised("ValueError", NoParams)
             /\ pc' = "idle"
             /\ UNCHANGED loopVars
        ELSE LET x_min == cx - Dec(15 * Q, 10) \div zm
                 x_max == cx + Dec(15 * Q, 10) \div zm
                 y_min == cy - Dec(10 * Q, 10) \div zm
                 y_max == cy + Dec(10 * Q, 10) \div zm
                 g == Grid(x_min, x_max, y_min, y_max, width, height)
             IN /\ c' = g
                /\ z' = [p \in DOMAIN g |-> Zero]
                /\ output' = [p \in DOMAIN g |-> 0]
                /\ mask' = DOMAIN g
                /\ i' = 0
                /\ pc' = "loop"
                /\ UNCHANGED ret

GenerateHeightMap ==
  /\ pc = "idle"
  /\ ncalls < MaxCalls
  /\ \E params \in CustomParams :
       Enter(params, [op |-> "generate_height_map", params |-> params,
                      description |-> {}])
  /\ UNCHANGED <<assetVars, nlpVars>>

\* Lines 246-273: the keyword chain of generate_world_from_description
KeywordChain(base, d) ==
     IF Has(d, {"mountain"})
     THEN [base EXCEPT !.zoom = Dec(25, 10), !.center_x = Dec(-7, 10)]
     ELSE IF Has(d, {"ocean", "water"})
     THEN [base EXCEPT !.zoom = Dec(12, 10), !.center_x = Dec(-4, 10),
                       !.center_y = Dec(6, 10)]
     ELSE IF Has(d, {"desert", "sand"})
     THEN [base EXCEPT !.zoom = Dec(30, 10), !.center_x = Dec(-1, 10),
                       !.center_y = Dec(-8, 10)]
     ELSE IF Has(d, {"forest", "jungle"})
     THEN [base EXCEPT !.zoom = Dec(40, 10), !.center_x = Dec(-14, 10),
                       !.center_y = 0]
     ELSE IF Has(d, {"cave", "underground"})
     THEN [base EXCEPT !.zoom = Dec(80, 10), !.center_x = Dec(-743644, 1000000),
                       !.center_y = Dec(131826, 1000000)]
     ELSE IF Has(d, {"island"})
     THEN [base EXCEPT !.zoom = Dec(8, 10), !.center_x = Dec(-5, 10),
                       !.center_y = 0]
     ELSE IF Has(d, {"minecraft", "blocky"})
     THEN [base EXCEPT !.zoom = Dec(15, 10), !.center_x = Dec(-65, 100),
                       !.max_iterations = BlockyMaxIterations]
     ELSE base

\* Lines 235-241: params starts as the generator's current fields
WorldParams(d) ==
  KeywordChain([keys |-> Keys, center_x |-> center_x, center_y |-> center_y,
                zoom |-> zoom, max_iterations |-> max_iterations], d)

\* Line 279: the quantized variant is requested
AlwaysBlocky(d) == TRUE
Blocky(d) == Has(d, {"minecraft", "blocky"})

GenerateWorldFromDescription ==
  /\ pc = "idle"
  /\ ncalls < MaxCalls
  /\ \E d \in Descriptions :
       Enter(WorldParams(d), [op |-> "generate_world_from_description",
                              params |-> WorldParams(d), description |-> d])
  /\ UNCHANGED <<assetVars, nlpVars>>

\* One iteration of for i in range(self.max_iterations), with its break
LoopStep ==
  /\ pc = "loop"
  /\ i < max_iterations
  /\ LET st == LoopBody([z |-> z, output |-> output, mask |-> mask], c, i)
     IN /\ z' = st.z
        /\ output' = st.output
        /\ mask' = st.mask
        /\ IF st.mask = {}
           THEN pc' = "after_loop" /\ i' = i
           ELSE pc' = "loop" /\ i' = i + 1
  /\ UNCHANGED <<genFields, call, c, ret, ncalls>>
  /\ UNCHANGED <<assetVars, nlpVars>>

\* Lines 80-82 and 115-117, and line 280 for a world: the cells that never
\* escaped take max_iterations, the counts are normalized, and a blocky
\* world is quantized
Return ==
  /\ pc = "after_loop" \/ (pc = "loop" /\ i >= max_iterations)
  /\ LET out == FillNeverEscaped(output, mask, max_iterations)
         hm == Normalize(out, max_iterations)
         world == call.op = "generate_world_from_description"
     IN /\ output' = out
        /\ ret' = [kind |-> "ok", error |-> "",
                   height_map |->
                     IF world /\ Blocky(call.description)
                     THEN [p \in DOMAIN hm |-> Quantize(hm[p])] ELSE hm,
                   parameters |-> IF world THEN call.params ELSE NoParams]
  /\ pc' = "idle"
  /\ UNCHANGED <<genFields, call, c, z, mask, i, ncalls>>
  /\ UNCHANGED <<assetVars, nlpVars>>

\* ------------------------------------------------ convert_to_3d_mesh_data
\* A height map array hm is [w, h, v]: its shape (h, w) and its cells v[y, x]
\* in hundredths.
\* Lines 182-186: the vertex of cell (y, x):
\* [(x - width/2) / width, (y - height/2) / height, height_map[y, x] * scale_factor]
Vertex(hm, y, x, scale_factor) ==
  <<Frac(2 * x - hm.w, 2 * hm.w), Frac(2 * y - hm.h, 2 * hm.h),
    hm.v[<<y, x>>] * scale_factor>>

\* Lines 178-186: for y in range(height): for x in range(width): append
VerticesByColumn(hm, scale_factor) ==
  [k \in 1 .. hm.w * hm.h |->
     Vertex(hm, (k - 1) % hm.h, (k - 1) \div hm.h, scale_factor)]
Vertices(hm, scale_factor) ==
  [k \in 1 .. hm.w * hm.h |->
     Vertex(hm, (k - 1) \div hm.w, (k - 1) % hm.w, scale_factor)]

\* Lines 193-196: the two triangles of the grid cell whose corner is vertex
\* vi (the code's i)
CellFacesPastRow(vi, w) == <<<<vi, vi + 1, vi + w>>, <<vi + 1, vi + w + 2, vi + w>>>>
CellFacesFlipped(vi, w) == <<<<vi, vi + 1, vi + w>>, <<vi + 1, vi + w, vi + w + 1>>>>
CellFaces(vi, w) == <<<<vi, vi + 1, vi + w>>, <<vi + 1, vi + w + 1, vi + w>>>>

\* Lines 189-196: for y in range(height-1): for x in range(width-1); grid
\* cell n (0-based, row-major) yields faces 2n+1 and 2n+2
Faces(hm) ==
  [k \in 1 .. 2 * (hm.w - 1) * (hm.h - 1) |->
     LET n == (k - 1) \div 2
         y == n \div (hm.w - 1)
         x == n % (hm.w - 1)
     IN CellFaces(y * hm.w + x, hm.w)[((k - 1) % 2) + 1]]

\* Line 199: [[0, 0, 1] for _ in range(len(vertices))]
Normals(vertices) == [k \in 1 .. Len(vertices) |-> <<0, 0, 1>>]

MeshOf(vertices, faces) ==
  [vertices |-> vertices, faces |-> faces, normals |-> Normals(vertices)]

\* convert_to_3d_mesh_data(height_map, scale_factor)
ConvertTo3dMeshData(hm, scale_factor) ==
  MeshOf(Vertices(hm, scale_factor), Faces(hm))

\* ===================================================== asset_generator.py
\* Heights, slopes thresholds, ranges and densities are in hundredths.

\* One entry of self.asset_types
Profile(hlo, hhi, wlo, whi, cmin, cmax, placement, minh, maxh, mins, maxs) ==
  [height_range |-> <<hlo, hhi>>, width_range |-> <<wlo, whi>>,
   color_range |-> <<cmin, cmax>>, placement |-> placement,
   min_height |-> minh, max_height |-> maxh,
   min_slope |-> mins, max_slope |-> maxs]

\* self.asset_types as __init__ builds it, lines 30-251
BuiltinAssetTypes ==
  [
   tree |-> Profile(50, 500, 30, 200,
               <<0, 30, 0>>, <<0, 80, 0>>,
               "land", 20, 80, 0, 40),
   rock |-> Profile(20, 150, 30, 200,
               <<30, 30, 30>>, <<70, 70, 70>>,
               "land", 10, 90, 0, 80),
   flower |-> Profile(5, 20, 5, 20,
               <<80, 0, 0>>, <<100, 80, 80>>,
               "land", 20, 70, 0, 30),
   grass |-> Profile(5, 30, 5, 20,
               <<0, 50, 0>>, <<50, 80, 0>>,
               "land", 20, 70, 0, 50),
   bush |-> Profile(20, 100, 30, 150,
               <<0, 30, 0>>, <<0, 60, 0>>,
               "land", 20, 70, 0, 40),
   cactus |-> Profile(50, 300, 20, 100,
               <<0, 40, 0>>, <<0, 60, 0>>,
               "land", 10, 50, 0, 30),
   water |-> Profile(10, 50, 100, 500,
               <<0, 0, 50>>, <<0, 50, 100>>,
               "water", 0, 30, 0, 10),
   cloud |-> Profile(20, 100, 100, 500,
               <<80, 80, 80>>, <<100, 100, 100>>,
               "sky", 0, 100, 0, 100),
   house |-> Profile(100, 300, 200, 500,
               <<50, 30, 0>>, <<80, 60, 40>>,
               "land", 20, 60, 0, 20),
   castle |-> Profile(300, 1000, 500, 1500,
               <<50, 50, 50>>, <<70, 70, 70>>,
               "land", 50, 90, 0, 30),
   bridge |-> Profile(50, 200, 100, 300,
               <<50, 30, 0>>, <<70, 50, 20>>,
               "water_crossing", 20, 50, 0, 30),
   path |-> Profile(5, 10, 50, 100,
               <<60, 50, 30>>, <<80, 70, 50>>,
               "land", 10, 80, 0, 40),
   river |-> Profile(10, 50, 100, 500,
               <<0, 0, 50>>, <<0, 50, 100>>,
               "water_flow", 10, 70, 5, 50),
   lake |-> Profile(10, 50, 500, 2000,
               <<0, 0, 50>>, <<0, 50, 100>>,
               "water_body", 10, 40, 0, 10),
   mountain |-> Profile(500, 2000, 500, 2000,
               <<30, 30, 30>>, <<70, 70, 70>>,
               "land", 60, 100, 30, 100),
   hill |-> Profile(100, 500, 300, 1000,
               <<0, 50, 0>>, <<50, 80, 0>>,
               "land", 30, 70, 10, 50),
   valley |-> Profile(100, 500, 500, 1500,
               <<0, 50, 0>>, <<50, 80, 0>>,
               "land_depression", 20, 60, 10, 50),
   canyon |-> Profile(500, 1500, 200, 1000,
               <<50, 30, 0>>, <<80, 60, 40>>,
               "land_depression", 30, 70, 50, 100),
   volcano |-> Profile(500, 1500, 500, 1500,
               <<50, 0, 0>>, <<80, 30, 0>>,
               "land", 60, 100, 30, 100),
   cave |-> Profile(100, 500, 100, 500,
               <<10, 10, 10>>, <<30, 30, 30>>,
               "land", 20, 80, 0, 100),
   sand |-> Profile(5, 20, 100, 1000,
               <<80, 70, 40>>, <<100, 90, 60>>,
               "land", 10, 30, 0, 20),
   snow |-> Profile(5, 20, 100, 1000,
               <<80, 80, 90>>, <<100, 100, 100>>,
               "land", 70, 100, 0, 100)
  ]

\* ------------------------------------------- numpy's global RandomState
RngStates == 0 .. RngMod - 1

\* np.random.seed(seed): the state is a scramble of the seed
SeedState(seed) == (7 * seed + 1) % RngMod

\* One step of the generator
Advance(x) == (5 * x + 3) % RngMod

\* rk_interval(max): an integer of 0 .. max from the state just reached
Interval(x, max) == x % (max + 1)

Swap(arr, a, b) == [arr EXCEPT ![a] = arr[b], ![b] = arr[a]]

\* shuffle: for i in reversed(range(1, n)): j = rk_interval(i); swap x[i], x[j];
\* the steps for i = hi-1 down to lo (the range is halved to keep the
\* evaluation shallow).  st = [arr, rng], arr[k+1] is element k.
RECURSIVE ShuffleSteps(_, _, _)
ShuffleSteps(st, lo, hi) ==
  IF lo >= hi THEN st
  ELSE IF hi = lo + 1
  THEN LET x == Advance(st.rng)
       IN [arr |-> Swap(st.arr, lo + 1, Interval(x, lo) + 1), rng |-> x]
  ELSE LET mid == (lo + hi) \div 2
           half == ShuffleSteps(st, mid, hi)
       IN IF half.rng \in RngStates THEN ShuffleSteps(half, lo, mid) ELSE half

\* np.arange(n)[lo:hi], as a sequence
RECURSIVE Arange(_, _)
Arange(lo, hi) ==
  IF lo >= hi THEN <<>>
  ELSE IF hi = lo + 1 THEN <<lo>>
  ELSE Arange(lo, (lo + hi) \div 2) \o Arange((lo + hi) \div 2, hi)

\* np.random.permutation(n): shuffle(np.arange(n))
Permutation(n, x) == ShuffleSteps([arr |-> Arange(0, n), rng |-> x], 1, n)

\* np.random.choice(n, size=count, replace=False): permutation(n)[:count]
ChoiceOfOne(n, count, x) == [indices |-> [k \in 1 .. count |-> Interval(x, n - 1)], rng |-> x]
Choice(n, count, x) ==
  LET pm == Permutation(n, x)
  IN [indices |-> SubSeq(pm.arr, 1, count), rng |-> pm.rng]

\* np.random.uniform(lo, hi) = lo + (hi - lo) * random_sample(), in units of
\* 1 / (100 * RngMod); random_sample() is x / RngMod, in [0, 1)
UniformToHigh(lo, hi, x) == lo * RngMod + (hi - lo) * (x + 1)
Uniform(lo, hi, x) == lo * RngMod + (hi - lo) * x

\* ------------------------------------------------------- calculate_slope
\* np.gradient along a line of n >= 2 samples, doubled: central differences
\* inside, one-sided differences at the two ends
Gradient2(line, n, k) ==
  IF k = 0 THEN 2 * (line[1] - line[0])
  ELSE IF k = n - 1 THEN 2 * (line[n - 1] - line[n - 2])
  ELSE line[k + 1] - line[k - 1]

\* np.gradient raises ValueError for an axis shorter than 2
GradientDefined(hm) == hm.w >= 2 /\ hm.h >= 2

\* 4 * slope^2 per cell: slope = sqrt(gx^2 + gy^2)
CalculateSlope(hm) ==
  [p \in Cells(hm.w, hm.h) |->
     LET gy2 == Gradient2([k \in 0 .. hm.h - 1 |-> hm.v[<<k, p[2]>>]], hm.h, p[1])
         gx2 == Gradient2([k \in 0 .. hm.w - 1 |-> hm.v[<<p[1], k>>]], hm.w, p[2])
     IN gx2 * gx2 + gy2 * gy2]

MaxOf(S) == IF S = {} THEN 0
            ELSE LET a == CHOOSE a \in S : \A b \in S : b <= a IN a

\* max_slope = np.max(slope); if max_slope > 0: slope = slope / max_slope.
\* The normalized slope of cell p is sqrt(sq[p] / den); it is nan where 0 is
\* divided by 0.
DivideByMax(mx) ==
  IF mx > 0 THEN [divided |-> TRUE, den |-> mx] ELSE [divided |-> FALSE, den |-> 1]

Normalized(sq, nm) == [sq |-> sq, den |-> nm.den, divided |-> nm.divided]
MaxSlope(sq) == MaxOf({sq[p] : p \in DOMAIN sq})
NormalizedBy(sq) == Normalized(sq, DivideByMax(MaxSlope(sq)))
NormalizedSlope(hm) == NormalizedBy(CalculateSlope(hm))

SlopeIsNan(sf, p) == sf.den = 0
\* slope[p] >= t/100 and slope[p] <= t/100, compared on the squares
SlopeGE(sf, p, t) ==
  /\ ~SlopeIsNan(sf, p)
  /\ t <= 0 \/ 10000 * sf.sq[p] >= t * t * sf.den
SlopeLE(sf, p, t) ==
  /\ ~SlopeIsNan(sf, p)
  /\ t >= 0 /\ 10000 * sf.sq[p] <= t * t * sf.den

\* ------------------------------------------- find_placement_locations
NoSeed == [some |-> FALSE, val |-> 0]
SomeSeed(n) == [some |-> TRUE, val |-> n]

\* if seed is not None: np.random.seed(seed)
KeepState(seed, x) == x
Reseed(seed, x) == IF seed.some THEN SeedState(seed.val) ELSE x

\* asset_type not in self.asset_types falls back to self.asset_types['tree']
PropsOfRock(types, asset_type) ==
  IF asset_type \in DOMAIN types THEN types[asset_type] ELSE types["rock"]
PropsOf(types, asset_type) ==
  IF asset_type \in DOMAIN types THEN types[asset_type] ELSE types["tree"]

InGrid(hm, y, x) == 0 <= y /\ y < hm.h /\ 0 <= x /\ x < hm.w

\* ndimage.binary_dilation(m): the default structure is the cross of a cell
\* and its four orthogonal neighbours; cells outside the grid are False
BinaryDilationFull(hm, m) == Cells(hm.w, hm.h)
BinaryDilationSquare(hm, m) ==
  {p \in Cells(hm.w, hm.h) :
     \E d \in (-1 .. 1) \X (-1 .. 1) : <<p[1] + d[1], p[2] + d[2]>> \in m}
BinaryDilation(hm, m) ==
  {p \in Cells(hm.w, hm.h) :
     \E d \in {<<0, 0>>, <<-1, 0>>, <<1, 0>>, <<0, -1>>, <<0, 1>>} :
       <<p[1] + d[1], p[2] + d[2]>> \in m}

\* The index scipy's mode='reflect' reads for index k of an axis of n cells
Reflect(k, n) ==
  LET m == k % (2 * n) IN IF m < n THEN m ELSE 2 * n - 1 - m

\* ndimage.minimum_filter(height_map, footprint=np.ones((size, size))): the
\* window of cell k covers k - size // 2 .. k - size // 2 + size - 1
MinimumFilter(hm, size) ==
  [p \in Cells(hm.w, hm.h) |->
     LET off == (0 - (size \div 2)) .. (size - (size \div 2) - 1)
         vals == {hm.v[<<Reflect(p[1] + dy, hm.h), Reflect(p[2] + dx, hm.w)>>] :
                    dy \in off, dx \in off}
     IN CHOOSE a \in vals : \A b \in vals : a <= b]

\* neighborhood_size = max(5, int(min(height_map.shape) / 20))
NeighborhoodSize(hm) ==
  LET m == (IF hm.w < hm.h THEN hm.w ELSE hm.h) \div 20
  IN IF m > 5 THEN m ELSE 5

\* (height_map - local_min) < 0.1
NearLocalMin(hm, local_min) ==
  {p \in Cells(hm.w, hm.h) : hm.v[p] - local_min[p] < 10}

\* placement_mask, lines 346-376
PlacementMask(hm, sf, placement) ==
  LET cells == Cells(hm.w, hm.h)
  IN CASE placement = "water" -> {p \in cells : hm.v[p] <= 30}
       [] placement = "water_body" ->
            {p \in cells : hm.v[p] <= 30 /\ SlopeLE(sf, p, 10)}
       [] placement = "water_flow" ->
            {p \in cells : hm.v[p] <= 50 /\ SlopeGE(sf, p, 5) /\ SlopeLE(sf, p, 50)}
       [] placement = "water_crossing" ->
            BinaryDilation(hm, {p \in cells : hm.v[p] <= 30})
              \cap BinaryDilation(hm, {p \in cells : hm.v[p] > 30})
       [] placement = "land_depression" ->
            NearLocalMin(hm, MinimumFilter(hm, NeighborhoodSize(hm)))
       [] OTHER -> cells

\* combined_mask = height_mask & slope_mask & placement_mask
MaskWith(hm, sf, pr) ==
  {p \in Cells(hm.w, hm.h) :
     /\ hm.v[p] >= pr.min_height /\ hm.v[p] <= pr.max_height
     /\ SlopeGE(sf, p, pr.min_slope) /\ SlopeLE(sf, p, pr.max_slope)}
  \cap PlacementMask(hm, sf, pr.placement)
CombinedMask(hm, pr) == MaskWith(hm, NormalizedSlope(hm), pr)

\* y_coords, x_coords = np.where(combined_mask): the cells of the mask in
\* row-major order, as a sequence of (y, x)
Where(hm, m) ==
  SelectSeq([k \in 1 .. hm.w * hm.h |-> <<(k - 1) \div hm.w, (k - 1) % hm.w>>],
            LAMBDA p : p \in m)

\* int(np.sqrt(n) * 0.1): the largest b with (10 b)^2 <= n
RECURSIVE SqrtTenth(_, _)
SqrtTenth(n, b) == IF 100 * (b + 1) * (b + 1) > n THEN b ELSE SqrtTenth(n, b + 1)

\* int(x / 100), truncating toward zero
Trunc100(x) == IF x >= 0 THEN x \div 100 ELSE 0 - ((0 - x) \div 100)

\* count = max(1, int(base_count * density)); count = min(count, total_suitable)
Count(total, density) ==
  LET raw == Trunc100(SqrtTenth(total, 0) * density)
      cnt == IF raw > 1 THEN raw ELSE 1
  IN IF cnt < total THEN cnt ELSE total

\* [(x_coords[i], y_coords[i]) for i in indices]
SitesRowFirst(coords, indices) ==
  [k \in 1 .. Len(indices) |->
     <<coords[indices[k] + 1][1], coords[indices[k] + 1][2]>>]
SitesAt(coords, indices) ==
  [k \in 1 .. Len(indices) |->
     <<coords[indices[k] + 1][2], coords[indices[k] + 1][1]>>]

\* Lines 394-397: the sites at the indices drawn, and the state after the draw
ChosenSites(coords, ch) ==
  [kind |-> "ok", error |-> "", sites |-> SitesAt(coords, ch.indices), rng |-> ch.rng]

\* Lines 384-397: [] when no cell is suitable, else count cells drawn without
\* replacement from the state x1
SelectSites(coords, density, x1) ==
  IF Len(coords) = 0
  THEN [kind |-> "ok", error |-> "", sites |-> <<>>, rng |-> x1]
  ELSE ChosenSites(coords, Choice(Len(coords), Count(Len(coords), density), x1))

\* find_placement_locations(height_map, asset_type, density, seed) called
\* with the global random state x: what it returns or raises, and the state
\* it leaves
FindPlacementLocations(hm, types, asset_type, density, seed, x) ==
  IF ~GradientDefined(hm)
  THEN [kind |-> "error", error |-> "ValueError", sites |-> <<>>,
        rng |-> Reseed(seed, x)]
  ELSE SelectSites(Where(hm, CombinedMask(hm, PropsOf(types, asset_type))),
                   density, Reseed(seed, x))

\* ------------------------------------------ generate_asset_properties
\* The state after k steps of the generator
RECURSIVE AdvanceBy(_, _)
AdvanceBy(x, k) == IF k = 0 THEN x ELSE AdvanceBy(Advance(x), k - 1)

\* Lines 421-438: six uniform draws from the state x0, in the order height,
\* width, colour, rotation
DrawProperties(pr, asset_type, x0) ==
  [props |->
     [type |-> asset_type,
      height |-> Uniform(pr.height_range[1], pr.height_range[2], AdvanceBy(x0, 1)),
      width |-> Uniform(pr.width_range[1], pr.width_range[2], AdvanceBy(x0, 2)),
      color |-> <<Uniform(pr.color_range[1][1], pr.color_range[2][1], AdvanceBy(x0, 3)),
                  Uniform(pr.color_range[1][2], pr.color_range[2][2], AdvanceBy(x0, 4)),
                  Uniform(pr.color_range[1][3], pr.color_range[2][3], AdvanceBy(x0, 5))>>,
      rotation |-> Uniform(0, 36000, AdvanceBy(x0, 6))],
   rng |-> AdvanceBy(x0, 6)]

\* generate_asset_properties(asset_type, seed) called with the global random
\* state x
GenerateAssetProperties(types, asset_type, seed, x) ==
  DrawProperties(PropsOf(types, asset_type), asset_type, Reseed(seed, x))

\* ------------------------------------------------------- place_assets
\* world_params, each key at the value its .get() yields: 'seed' may be
\* missing; a missing 'entities' is [], a missing 'entity_density' 0.5, a
\* missing centre (-0.5, 0)
WorldParamsDict(seed, entities, density, cx, cy) ==
  [seed |-> seed, entities |-> entities, entity_density |-> density,
   center_x |-> cx, center_y |-> cy]

\* Lines 464-477: the entities placed
Entities(wp) ==
  IF wp.entities # <<>> THEN wp.entities
  ELSE IF wp.center_x < -70 THEN <<"tree", "rock", "grass">>
  ELSE IF wp.center_y > 50 THEN <<"water", "sand", "grass">>
  ELSE IF wp.center_x > 0 /\ wp.center_y < 0 THEN <<"cactus", "rock", "sand">>
  ELSE <<"tree", "grass", "flower", "rock">>

\* instance_seed = entity_seed + j
InstanceSeedOfEntity(entity_seed, j) == entity_seed
InstanceSeedPerCategory(entity_seed, j) == 2 * entity_seed + j
InstanceSeed(entity_seed, j) == entity_seed + j

\* Lines 503-511: the asset appended for site (x, y); z = height_map[y, x] * 50
AssetAt(hm, props, site) ==
  [type |-> props.type, height |-> props.height, width |-> props.width,
   color |-> props.color, rotation |-> props.rotation,
   position |-> [x |-> site[1], y |-> site[2],
                 z |-> hm.v[<<site[2], site[1]>>] * 50]]

\* assets.append(asset), before the assets of the sites that follow
AppendedLast(asset, rest) == [assets |-> rest.assets \o <<asset>>, rng |-> rest.rng]
Appended(asset, rest) == [assets |-> <<asset>> \o rest.assets, rng |-> rest.rng]

\* Lines 496-511: the assets of one entity type, sites j+1 .. Len(sites);
\* g is what generate_asset_properties returned for site j+1
RECURSIVE PlaceInstances(_, _, _, _, _, _, _)
RECURSIVE PlaceInstance(_, _, _, _, _, _, _)
PlaceInstance(hm, types, entity_type, entity_seed, sites, j, g) ==
  Appended(AssetAt(hm, g.props, sites[j + 1]),
           PlaceInstances(hm, types, entity_type, entity_seed, sites, j + 1, g.rng))
PlaceInstances(hm, types, entity_type, entity_seed, sites, j, x) ==
  IF j >= Len(sites) THEN [assets |-> <<>>, rng |-> x]
  ELSE PlaceInstance(hm, types, entity_type, entity_seed, sites, j,
         GenerateAssetProperties(types, entity_type,
                                 SomeSeed(InstanceSeed(entity_seed, j)), x))

\* The assets of one entity type before those of the entity types that follow
Extended(assets, rest) ==
  [kind |-> rest.kind, error |-> rest.error,
   assets |-> IF rest.kind = "ok" THEN assets \o rest.assets ELSE <<>>,
   rng |-> rest.rng]

\* Lines 483-511: entity types ei+1 .. Len(entities); f is what
\* find_placement_locations returned for entity type ei+1 (its exception ends
\* the call), inst the assets placed at its sites
RECURSIVE PlaceEntities(_, _, _, _, _, _, _)
RECURSIVE PlaceEntity(_, _, _, _, _, _, _)
RECURSIVE PlaceFollowing(_, _, _, _, _, _, _)
PlaceFollowing(hm, types, entities, density, master_seed, ei, inst) ==
  Extended(inst.assets,
           PlaceEntities(hm, types, entities, density, master_seed, ei + 1, inst.rng))
PlaceEntity(hm, types, entities, density, master_seed, ei, f) ==
  IF f.kind = "error"
  THEN [kind |-> "error", error |-> f.error, assets |-> <<>>, rng |-> f.rng]
  ELSE PlaceFollowing(hm, types, entities, density, master_seed, ei,
         PlaceInstances(hm, types, entities[ei + 1], master_seed + ei,
                        f.sites, 0, f.rng))
PlaceEntities(hm, types, entities, density, master_seed, ei, x) ==
  IF ei >= Len(entities) THEN [kind |-> "ok", error |-> "", assets |-> <<>>, rng |-> x]
  ELSE PlaceEntity(hm, types, entities, density, master_seed, ei,
         FindPlacementLocations(hm, types, entities[ei + 1], density,
                                SomeSeed(master_seed + ei), x))

\* np.random.randint(0, 1000000) from the state just reached
RandInt(x) == x

\* Lines 452-457: the master seed, and the random state after choosing it
MasterSeedDrawn(wp, seed, x) == [seed |-> RandInt(Advance(x)), rng |-> Advance(x)]
MasterSeed(wp, seed, x) ==
  IF seed.some THEN [seed |-> seed.val, rng |-> x]
  ELSE IF wp.seed.some THEN [seed |-> wp.seed.val, rng |-> x]
  ELSE [seed |-> RandInt(Advance(x)), rng |-> Advance(x)]

\* Lines 513-517: {'seed': master_seed, 'count': len(assets), 'assets': assets}
Manifest(master_seed, r) ==
  [kind |-> r.kind, error |-> r.error,
   manifest |-> [seed |-> master_seed, count |-> Len(r.assets), assets |-> r.assets],
   rng |-> r.rng]

\* Lines 459-517 with the master seed ms chosen
PlaceWith(hm, types, wp, ms) ==
  Manifest(ms.seed,
           PlaceEntities(hm, types, Entities(wp), wp.entity_density, ms.seed, 0, ms.rng))

\* place_assets(height_map, world_params, seed) called with the global
\* random state x
PlaceAssets(hm, types, wp, seed, x) ==
  PlaceWith(hm, types, wp, MasterSeed(wp, seed, x))

\* The max_iterations a generator is constructed with
ConstructedIterations == {-1, 0, MaxIter}

\* The generator as constructed, lines 29-34
GenInit ==
  /\ \E d \in Dims : width = d[1] /\ height = d[2]
  /\ max_iterations \in ConstructedIterations
  /\ center_x = Dec(-5, 10)
  /\ center_y = 0
  /\ zoom = Q
  /\ pc = "idle"
  /\ call = NoCall
  /\ c = EmptyGrid
  /\ z = EmptyGrid
  /\ output = EmptyGrid
  /\ mask = {}
  /\ i = 0
  /\ ret = NoRet
  /\ ncalls = 0

GenNext ==
  \/ GenerateHeightMap
  \/ GenerateWorldFromDescription
  \/ LoopStep
  \/ Return

\* ------------------------------------------------- the asset engine's inputs
\* A height map array: its shape and its cells, indexed (y, x)
HeightMapOf(w, h, v) == [w |-> w, h |-> h, v |-> v]

AllMaps(w, h, levels) ==
  {HeightMapOf(w, h, v) : v \in [Cells(w, h) -> levels]}

Levels == <<0, 30, 31, 60, 100>>

\* The maps v[y, x] = Levels[(a x + b y + k) mod 5]: flat ones, ramps along
\* one axis and diagonal ramps
PatternMaps ==
  {HeightMapOf(PatW, PatH,
     [p \in Cells(PatW, PatH) |->
        Levels[((ab[1] * p[2] + ab[2] * p[1] + k) % Len(Levels)) + 1]]) :
     ab \in {<<0, 0>>, <<1, 0>>, <<0, 1>>, <<1, 1>>, <<1, 2>>},
     k \in 0 .. Len(Levels) - 1}

FlatMap(w, h, level) == HeightMapOf(w, h, [p \in Cells(w, h) |-> level])

\* The height maps tried: every 2 x 2 map over three levels, the patterned
\* maps, maps with a side of one cell, a flat map wider than high, and a
\* large flat map
HeightMaps ==
  AllMaps(2, 2, {30, 60, 100})
    \cup PatternMaps
    \cup AllMaps(1, 1, {30, 60})
    \cup {FlatMap(1, 2, 30), FlatMap(2, 1, 60)}
    \cup {FlatMap(PatW, 2, 30)}
    \cup {FlatMap(BigSide, BigSide, 30)}

AssetTypeArgs ==
  {"tree", "rock", "water", "cloud", "river", "lake", "bridge", "valley", "dragon"}

DensityArgs == {0, 50, 200}

SeedArgs == {NoSeed} \cup {SomeSeed(n) : n \in 0 .. MaxSeed}

\* world_params without 'entities' for each centre the code tells apart, and
\* with 'entities' given
WorldParamsArgs ==
  {WorldParamsDict(NoSeed, <<>>, 50, cc[1], cc[2]) :
     cc \in {<<-50, 0>>, <<-140, 0>>, <<-40, 60>>, <<10, -80>>}}
  \cup
  {WorldParamsDict(sd, en, 50, -50, 0) :
     sd \in {NoSeed, SomeSeed(2)},
     en \in {<<"tree", "rock">>, <<"tree", "tree">>, <<"water", "dragon", "bridge">>}}
  \cup
  {WorldParamsDict(NoSeed, <<"tree", "dragon", "cloud">>, 200, -50, 0)}

\* -------------------------------------------------- the asset engine's calls
NoProps == [type |-> "", height |-> 0, width |-> 0, color |-> <<0, 0, 0>>,
            rotation |-> 0]
NoManifest == [seed |-> 0, count |-> 0, assets |-> <<>>]
NoWorldParams == WorldParamsDict(NoSeed, <<>>, 50, -50, 0)

ACall(op, asset_type, density, seed, wp) ==
  [op |-> op, asset_type |-> asset_type, density |-> density, seed |-> seed,
   world_params |-> wp]
NoACall == ACall("none", "", 0, NoSeed, NoWorldParams)

NoMesh == [vertices |-> <<>>, faces |-> <<>>, normals |-> <<>>]

ARet(kind, error, sites, props, manifest) ==
  [kind |-> kind, error |-> error, sites |-> sites, props |-> props,
   manifest |-> manifest, mesh |-> NoMesh]
NoARet == ARet("none", "", <<>>, NoProps, NoManifest)

\* The call cl returned r.ret and entered the profile it used for cl.asset_type
\* in the registry
ReturnsRegistering(cl, r) ==
  /\ acall.op = "none"
  /\ probe_n < MaxReplays
  /\ acall' = cl
  /\ aret' = r.ret
  /\ np_state' = r.rng
  /\ probe_ret' = IF cl = probe /\ probe_n = 0 THEN r.ret ELSE probe_ret
  /\ probe_n' = IF cl = probe THEN probe_n + 1 ELSE probe_n
  /\ probe_gap' = (probe_gap \/ (cl # probe /\ probe_n >= 1))
  /\ asset_types' = [t \in DOMAIN asset_types \cup {cl.asset_type} |->
                       PropsOf(asset_types, t)]
  /\ UNCHANGED <<height_map, probe>>
  /\ UNCHANGED <<genVars, nlpVars>>

\* The call cl returned r.ret and left the random state r.rng
Returns(cl, r) ==
  /\ acall.op = "none"
  /\ probe_n < MaxReplays
  /\ acall' = cl
  /\ aret' = r.ret
  /\ np_state' = r.rng
  /\ probe_ret' = IF cl = probe /\ probe_n = 0 THEN r.ret ELSE probe_ret
  /\ probe_n' = IF cl = probe THEN probe_n + 1 ELSE probe_n
  /\ probe_gap' = (probe_gap \/ (cl # probe /\ probe_n >= 1))
  /\ UNCHANGED <<asset_types, height_map, probe>>
  /\ UNCHANGED <<genVars, nlpVars>>

Found(r) ==
  [ret |-> ARet(r.kind, r.error, r.sites, NoProps, NoManifest), rng |-> r.rng]

Generated(r) ==
  [ret |-> ARet("ok", "", <<>>, r.props, NoManifest), rng |-> r.rng]

Placed(r) ==
  [ret |-> ARet(r.kind, r.error, <<>>, NoProps,
                IF r.kind = "ok" THEN r.manifest ELSE NoManifest),
   rng |-> r.rng]

Drawn(x) == [ret |-> ARet("ok", "", <<>>, NoProps, NoManifest), rng |-> x]

CallFindPlacementLocations ==
  \E at \in AssetTypeArgs, d \in DensityArgs, sd \in SeedArgs :
    Returns(ACall("find_placement_locations", at, d, sd, NoWorldParams),
            Found(FindPlacementLocations(height_map, asset_types, at, d, sd,
                                         np_state)))

CallGenerateAssetProperties ==
  \E at \in AssetTypeArgs, sd \in SeedArgs :
    Returns(ACall("generate_asset_properties", at, 0, sd, NoWorldParams),
            Generated(GenerateAssetProperties(asset_types, at, sd, np_state)))

CallPlaceAssets ==
  \E wp \in WorldParamsArgs, sd \in {NoSeed, SomeSeed(MaxSeed)} :
    Returns(ACall("place_assets", "", 0, sd, wp),
            Placed(PlaceAssets(height_map, asset_types, wp, sd, np_state)))

\* Some other code draws from np.random
OtherDraw ==
  Returns(ACall("draw", "", 0, NoSeed, NoWorldParams), Drawn(Advance(np_state)))

\* The caller takes the result
TakeResult ==
  /\ acall.op # "none"
  /\ acall' = NoACall
  /\ aret' = NoARet
  /\ UNCHANGED <<asset_types, height_map, np_state, probe, probe_ret, probe_n,
                 probe_gap>>
  /\ UNCHANGED <<genVars, nlpVars>>

AssetNext ==
  \/ CallFindPlacementLocations
  \/ CallGenerateAssetProperties
  \/ CallPlaceAssets
  \/ OtherDraw
  \/ TakeResult

\* ---------------------------------------------------- the mesh builder's calls
\* The height maps turned into meshes: every shape up to MeshW x MeshH, with
\* v[y, x] = Levels[(a x + b y + k) mod 5]
MeshMaps ==
  {HeightMapOf(w, h,
     [p \in Cells(w, h) |->
        Levels[((ab[1] * p[2] + ab[2] * p[1] + k) % Len(Levels)) + 1]]) :
     w \in 1 .. MeshW, h \in 1 .. MeshH,
     ab \in {<<0, 0>>, <<1, 0>>, <<0, 1>>, <<1, 1>>, <<1, 2>>},
     k \in 0 .. Len(Levels) - 1}

ScaleFactorArgs == {50, 1}

Meshed(mesh, x) ==
  [ret |-> [NoARet EXCEPT !.kind = "ok", !.mesh = mesh], rng |-> x]

CallConvertTo3dMeshData ==
  \E sf \in ScaleFactorArgs :
    Returns(ACall("convert_to_3d_mesh_data", "", sf, NoSeed, NoWorldParams),
            Meshed(ConvertTo3dMeshData(height_map, sf), np_state))

MeshNext ==
  \/ CallConvertTo3dMeshData
  \/ TakeResult

\* The AssetGenerator as constructed (no assets_dir), any height map, and the
\* random state the process happens to have
AssetInitWith(maps, probes) ==
  /\ asset_types = BuiltinAssetTypes
  /\ height_map \in maps
  /\ np_state \in RngStates
  /\ acall = NoACall
  /\ aret = NoARet
  /\ probe \in probes
  /\ probe_ret = NoARet
  /\ probe_n = 0
  /\ probe_gap = FALSE

\* One generator that is never called, and one asset engine that is never
\* called
GenIdle ==
  /\ width = 1 /\ height = 1 /\ max_iterations = 1
  /\ center_x = Dec(-5, 10) /\ center_y = 0 /\ zoom = Q
  /\ pc = "idle" /\ call = NoCall
  /\ c = EmptyGrid /\ z = EmptyGrid /\ output = EmptyGrid /\ mask = {} /\ i = 0
  /\ ret = NoRet /\ ncalls = 0

AssetIdle == AssetInitWith({FlatMap(2, 2, 30)}, {NoACall}) /\ np_state = 0

vars == <<genVars, assetVars, nlpVars>>

\* The terrain engine
Init == GenInit /\ AssetIdle /\ NlpIdle

Next == GenNext

Spec == Init /\ [][Next]_vars

\* The asset engine, over every height map of the model
AssetSpecInit == GenIdle /\ AssetInitWith(HeightMaps, {NoACall}) /\ NlpIdle

AssetSpec == AssetSpecInit /\ [][AssetNext]_vars

\* The mesh builder, over every height map of MeshMaps
MeshSpecInit ==
  GenIdle /\ AssetInitWith(MeshMaps, {NoACall}) /\ np_state = 0 /\ NlpIdle

MeshSpec == MeshSpecInit /\ [][MeshNext]_vars

\* The asset engine with one call watched, over a few height maps
ReplayMaps ==
  {FlatMap(PatW, PatH, 30),
   HeightMapOf(2, 2, [p \in Cells(2, 2) |-> IF p[1] = p[2] THEN 30 ELSE 60]),
   HeightMapOf(PatW, PatH, [p \in Cells(PatW, PatH) |-> Levels[((p[1] + p[2]) % 3) + 1]])}

ProbeCalls ==
  {ACall("find_placement_locations", at, 200, SomeSeed(MaxSeed), NoWorldParams) :
     at \in {"tree", "cloud"}}
  \cup
  {ACall("place_assets", "", 0, SomeSeed(MaxSeed),
         WorldParamsDict(NoSeed, <<"tree", "rock">>, 50, -50, 0)),
   ACall("place_assets", "", 0, NoSeed,
         WorldParamsDict(SomeSeed(2), <<"tree", "tree">>, 50, -50, 0))}

ReplaySpecInit == GenIdle /\ AssetInitWith(ReplayMaps, ProbeCalls) /\ NlpIdle

ReplaySpec == ReplaySpecInit /\ [][AssetNext]_vars

\* ============================================== the description processor
\* A python number: an int, or a float kept in units of 1/(2 Q)
I(n) == [float |-> FALSE, val |-> 2 * Q * n]
F(thousandths) == [float |-> TRUE, val |-> (2 * Q * thousandths) \div 1000]

\* self.biome_keywords, lines 27-48
BiomeKeywords ==
  [
   mountain |-> [zoom |-> F(2500), center_x |-> F(-700), center_y |-> F(100), max_iterations |-> I(120)],
   ocean |-> [zoom |-> F(1200), center_x |-> F(-400), center_y |-> F(600), max_iterations |-> I(80)],
   desert |-> [zoom |-> F(3000), center_x |-> F(-100), center_y |-> F(-800), max_iterations |-> I(60)],
   forest |-> [zoom |-> F(4000), center_x |-> F(-1400), center_y |-> F(0), max_iterations |-> I(100)],
   cave |-> [zoom |-> F(8000), center_x |-> F(-744), center_y |-> F(132), max_iterations |-> I(150)],
   island |-> [zoom |-> F(800), center_x |-> F(-500), center_y |-> I(0), max_iterations |-> I(90)],
   minecraft |-> [zoom |-> F(1500), center_x |-> F(-650), center_y |-> F(100), max_iterations |-> I(50), quantize |-> TRUE],
   blocky |-> [zoom |-> F(1500), center_x |-> F(-650), center_y |-> F(100), max_iterations |-> I(50), quantize |-> TRUE],
   valley |-> [zoom |-> F(2000), center_x |-> F(-200), center_y |-> F(700), max_iterations |-> I(110)],
   canyon |-> [zoom |-> F(3500), center_x |-> F(-800), center_y |-> F(-200), max_iterations |-> I(130)],
   volcano |-> [zoom |-> F(5000), center_x |-> F(-750), center_y |-> F(100), max_iterations |-> I(140)],
   lake |-> [zoom |-> F(1800), center_x |-> F(-500), center_y |-> F(500), max_iterations |-> I(85)],
   river |-> [zoom |-> F(2200), center_x |-> F(-600), center_y |-> F(400), max_iterations |-> I(95)],
   hills |-> [zoom |-> F(1700), center_x |-> F(-300), center_y |-> F(200), max_iterations |-> I(70)],
   plains |-> [zoom |-> F(1000), center_x |-> F(-200), center_y |-> F(0), max_iterations |-> I(50)],
   swamp |-> [zoom |-> F(2300), center_x |-> F(-900), center_y |-> F(300), max_iterations |-> I(75)],
   jungle |-> [zoom |-> F(4200), center_x |-> F(-1300), center_y |-> F(100), max_iterations |-> I(110)],
   tundra |-> [zoom |-> F(1500), center_x |-> F(-400), center_y |-> F(-500), max_iterations |-> I(65)],
   ice |-> [zoom |-> F(1600), center_x |-> F(-300), center_y |-> F(-600), max_iterations |-> I(60)],
   snow |-> [zoom |-> F(1600), center_x |-> F(-300), center_y |-> F(-600), max_iterations |-> I(60)]
  ]

\* self.feature_keywords, lines 50-69
FeatureKeywords ==
  [
   tall |-> [height_scale |-> F(1500)],
   short |-> [height_scale |-> F(500)],
   flat |-> [height_scale |-> F(300)],
   steep |-> [height_scale |-> F(2000)],
   gentle |-> [height_scale |-> F(700)],
   rough |-> [roughness |-> F(1500)],
   smooth |-> [roughness |-> F(500)],
   colorful |-> [color_intensity |-> F(1500)],
   dark |-> [color_intensity |-> F(700)],
   bright |-> [color_intensity |-> F(1300)],
   deep |-> [depth |-> F(1500)],
   shallow |-> [depth |-> F(500)],
   wide |-> [width |-> F(1500)],
   narrow |-> [width |-> F(700)],
   big |-> [scale |-> F(1500)],
   small |-> [scale |-> F(700)],
   huge |-> [scale |-> F(2000)],
   tiny |-> [scale |-> F(400)]
  ]

\* self.entity_keywords, lines 71-135
EntityKeywords ==
  [
   tree |-> [entities |-> {"tree"}, density |-> F(800)],
   trees |-> [entities |-> {"tree"}, density |-> F(1000)],
   rock |-> [entities |-> {"rock"}, density |-> F(600)],
   rocks |-> [entities |-> {"rock"}, density |-> F(800)],
   flower |-> [entities |-> {"flower"}, density |-> F(700)],
   flowers |-> [entities |-> {"flower"}, density |-> F(1000)],
   grass |-> [entities |-> {"grass"}, density |-> F(1000)],
   bush |-> [entities |-> {"bush"}, density |-> F(600)],
   bushes |-> [entities |-> {"bush"}, density |-> F(900)],
   animal |-> [entities |-> {"animal"}, density |-> F(500)],
   animals |-> [entities |-> {"animal"}, density |-> F(800)],
   fish |-> [entities |-> {"fish"}, density |-> F(700)],
   fishes |-> [entities |-> {"fish"}, density |-> F(900)],
   bird |-> [entities |-> {"bird"}, density |-> F(600)],
   birds |-> [entities |-> {"bird"}, density |-> F(800)],
   cloud |-> [entities |-> {"cloud"}, density |-> F(500)],
   clouds |-> [entities |-> {"cloud"}, density |-> F(800)],
   star |-> [entities |-> {"star"}, density |-> F(700)],
   stars |-> [entities |-> {"star"}, density |-> F(1000)],
   house |-> [entities |-> {"house"}, density |-> F(400)],
   houses |-> [entities |-> {"house"}, density |-> F(600)],
   castle |-> [entities |-> {"castle"}, density |-> F(300)],
   castles |-> [entities |-> {"castle"}, density |-> F(500)],
   bridge |-> [entities |-> {"bridge"}, density |-> F(300)],
   bridges |-> [entities |-> {"bridge"}, density |-> F(500)],
   road |-> [entities |-> {"road"}, density |-> F(500)],
   roads |-> [entities |-> {"road"}, density |-> F(700)],
   path |-> [entities |-> {"path"}, density |-> F(600)],
   paths |-> [entities |-> {"path"}, density |-> F(800)],
   river |-> [entities |-> {"river"}, density |-> F(500)],
   rivers |-> [entities |-> {"river"}, density |-> F(700)],
   lake |-> [entities |-> {"lake"}, density |-> F(400)],
   lakes |-> [entities |-> {"lake"}, density |-> F(600)],
   ocean |-> [entities |-> {"ocean"}, density |-> F(300)],
   oceans |-> [entities |-> {"ocean"}, density |-> F(500)],
   mountain |-> [entities |-> {"mountain"}, density |-> F(400)],
   mountains |-> [entities |-> {"mountain"}, density |-> F(700)],
   hill |-> [entities |-> {"hill"}, density |-> F(500)],
   hills |-> [entities |-> {"hill"}, density |-> F(800)],
   valley |-> [entities |-> {"valley"}, density |-> F(400)],
   valleys |-> [entities |-> {"valley"}, density |-> F(600)],
   canyon |-> [entities |-> {"canyon"}, density |-> F(300)],
   canyons |-> [entities |-> {"canyon"}, density |-> F(500)],
   volcano |-> [entities |-> {"volcano"}, density |-> F(200)],
   volcanoes |-> [entities |-> {"volcano"}, density |-> F(400)],
   cave |-> [entities |-> {"cave"}, density |-> F(300)],
   caves |-> [entities |-> {"cave"}, density |-> F(500)],
   forest |-> [entities |-> {"tree"}, density |-> F(1000)],
   forests |-> [entities |-> {"tree"}, density |-> F(1200)],
   jungle |-> [entities |-> {"tree", "bush"}, density |-> F(1500)],
   jungles |-> [entities |-> {"tree", "bush"}, density |-> F(1700)],
   desert |-> [entities |-> {"cactus", "rock"}, density |-> F(400)],
   deserts |-> [entities |-> {"cactus", "rock"}, density |-> F(600)],
   tundra |-> [entities |-> {"rock", "snow"}, density |-> F(500)],
   tundras |-> [entities |-> {"rock", "snow"}, density |-> F(700)],
   swamp |-> [entities |-> {"tree", "water"}, density |-> F(800)],
   swamps |-> [entities |-> {"tree", "water"}, density |-> F(1000)],
   plain |-> [entities |-> {"grass"}, density |-> F(900)],
   plains |-> [entities |-> {"grass"}, density |-> F(1100)],
   beach |-> [entities |-> {"sand"}, density |-> F(700)],
   beaches |-> [entities |-> {"sand"}, density |-> F(900)],
   island |-> [entities |-> {"tree", "rock"}, density |-> F(600)],
   islands |-> [entities |-> {"tree", "rock"}, density |-> F(800)]
  ]

\* The words of a description as typed: the pieces that punctuation separates,
\* in the case they were typed in
Tokens ==
  {[pieces |-> <<"mountain">>], [pieces |-> <<"Ocean">>], [pieces |-> <<"cave">>],
   [pieces |-> <<"Minecraft", "like">>], [pieces |-> <<"lake">>],
   [pieces |-> <<"Beautiful">>], [pieces |-> <<"ugly">>], [pieces |-> <<"tall">>],
   [pieces |-> <<"trees">>], [pieces |-> <<"a">>]}

\* str.lower()
Lower(word) ==
  CASE word = "Ocean" -> "ocean"
    [] word = "Minecraft" -> "minecraft"
    [] word = "Beautiful" -> "beautiful"
    [] OTHER -> word

\* The descriptions processed: up to MaxWords typed words
TypedDescriptions == UNION {[1 .. n -> Tokens] : n \in 0 .. MaxWords}

\* preprocess_text followed by split(): lower case, punctuation turned into
\* spaces, the words between the spaces
RECURSIVE PreprocessText(_)
PreprocessText(typed) ==
  IF typed = <<>> THEN <<>>
  ELSE [k \in 1 .. Len(Head(typed).pieces) |-> Lower(Head(typed).pieces[k])]
         \o PreprocessText(Tail(typed))

\* extract_keywords: the words of each table, in the order of the text
ExtractKeywords(words) ==
  [biomes |-> SelectSeq(words, LAMBDA w : w \in DOMAIN BiomeKeywords),
   features |-> SelectSeq(words, LAMBDA w : w \in DOMAIN FeatureKeywords),
   entities |-> SelectSeq(words, LAMBDA w : w \in DOMAIN EntityKeywords)]

PositiveWords ==
  {"beautiful", "amazing", "wonderful", "great", "good", "nice", "lovely",
   "fantastic", "awesome", "excellent"}
NegativeWords ==
  {"ugly", "terrible", "horrible", "bad", "awful", "nasty", "dreadful", "poor",
   "unpleasant", "disgusting"}

\* analyze_sentiment: the two scores as fractions num / den
Scores(pos, neg) ==
  IF pos + neg = 0
  THEN [positive |-> [num |-> 1, den |-> 2], negative |-> [num |-> 1, den |-> 2]]
  ELSE [positive |-> [num |-> pos, den |-> pos + neg],
        negative |-> [num |-> neg, den |-> pos + neg]]
AnalyzeSentiment(words) ==
  Scores(Len(SelectSeq(words, LAMBDA w : w \in PositiveWords)),
         Len(SelectSeq(words, LAMBDA w : w \in NegativeWords)))

\* score > 0.6
Above06(score) == 10 * score.num > 6 * score.den

\* The default parameters, lines 276-287
DefaultParams ==
  [center_x |-> F(-500), center_y |-> I(0), zoom |-> F(1000),
   max_iterations |-> I(100), height_scale |-> F(1000), roughness |-> F(1000),
   color_intensity |-> F(1000), quantize |-> FALSE, entities |-> {},
   entity_density |-> F(500)]

\* dict.update
Update(prm, other) ==
  [k \in DOMAIN prm \cup DOMAIN other |->
     IF k \in DOMAIN other THEN other[k] ELSE prm[k]]

\* (a + b) / 2: true division, a float whatever a and b are
Average(a, b) == [float |-> TRUE, val |-> (a.val + b.val) \div 2]

\* Lines 296-304: the keys of the secondary biome averaged into the parameters
Blend(prm, secondary_params) ==
  [k \in DOMAIN prm |->
     IF k \in {"center_x", "center_y", "zoom", "max_iterations"}
          /\ k \in DOMAIN secondary_params
     THEN Average(prm[k], secondary_params[k]) ELSE prm[k]]

\* Lines 290-304
BlendIfSecond(prm, biomes) ==
  IF Len(biomes) > 1 THEN Blend(prm, BiomeKeywords[biomes[2]]) ELSE prm
ApplyBiomes(prm, biomes) ==
  IF biomes = <<>> THEN prm
  ELSE BlendIfSecond(Update(prm, BiomeKeywords[biomes[1]]), biomes)

\* Lines 307-309
RECURSIVE ApplyFeatures(_, _)
ApplyFeatures(prm, features) ==
  IF features = <<>> THEN prm
  ELSE ApplyFeatures(Update(prm, FeatureKeywords[Head(features)]), Tail(features))

RECURSIVE TotalDensity(_)
TotalDensity(entities) ==
  IF entities = <<>> THEN 0
  ELSE EntityKeywords[Head(entities)].density.val + TotalDensity(Tail(entities))

\* Lines 312-328: the entities of the entity words as a set, and the mean of
\* their densities
CollectEntities(prm, entities) ==
  IF entities = <<>> THEN prm
  ELSE [prm EXCEPT
          !.entities = UNION {EntityKeywords[entities[k]].entities :
                                k \in 1 .. Len(entities)},
          !.entity_density = [float |-> TRUE,
                              val |-> TotalDensity(entities) \div Len(entities)]]

\* x * f for a factor f given in tenths
Times(x, tenths) == [float |-> TRUE, val |-> (x.val * tenths) \div 10]

\* int(x): truncation toward zero
IntOf(x) ==
  [float |-> FALSE,
   val |-> 2 * Q * (IF x.val >= 0 THEN x.val \div (2 * Q)
                    ELSE 0 - ((0 - x.val) \div (2 * Q)))]

\* Lines 331-338
ApplySentiment(prm, sentiment) ==
  IF Above06(sentiment.positive)
  THEN [prm EXCEPT !.color_intensity = Times(@, 12),
                   !.max_iterations = IntOf(Times(@, 11))]
  ELSE IF Above06(sentiment.negative)
  THEN [prm EXCEPT !.color_intensity = Times(@, 8),
                   !.roughness = Times(@, 12)]
  ELSE prm

\* process_description(description), from the words of the preprocessed text
ProcessWords(words) ==
  ApplySentiment(
    CollectEntities(
      ApplyFeatures(ApplyBiomes(DefaultParams, ExtractKeywords(words).biomes),
                    ExtractKeywords(words).features),
      ExtractKeywords(words).entities),
    AnalyzeSentiment(words))
ProcessDescription(typed) == ProcessWords(PreprocessText(typed))

\* range(n): a TypeError when n is a float
Range(n) == IF n.float THEN "TypeError" ELSE "ok"

\* process_description returns
CallProcessDescription ==
  /\ nlp_range = "none"
  /\ nlp_params = <<>>
  /\ \E typed \in TypedDescriptions :
       /\ nlp_description' = typed
       /\ nlp_params' = ProcessDescription(typed)
  /\ UNCHANGED nlp_range
  /\ UNCHANGED <<genVars, assetVars>>

\* The terrain engine given the returned max_iterations reaches
\* 'for i in range(self.max_iterations)'
IterateToCap ==
  /\ DOMAIN nlp_params # {}
  /\ nlp_range = "none"
  /\ nlp_range' = Range(nlp_params.max_iterations)
  /\ UNCHANGED <<nlp_description, nlp_params>>
  /\ UNCHANGED <<genVars, assetVars>>

NlpNext ==
  \/ CallProcessDescription
  \/ IterateToCap

NlpSpecInit == GenIdle /\ AssetIdle /\ NlpIdle

NlpSpec == NlpSpecInit /\ [][NlpNext]_vars

\* ======================================================== the claims, Spec
\* GridParams is valid: width, height, zoom and max_iterations are positive
ValidParams == width > 0 /\ height > 0 /\ zoom > 0 /\ max_iterations > 0

\* A call has returned a height map and no other call has started
Returned == pc = "idle" /\ ret.kind = "ok"

InUnitInterval(h) == ~h.nan /\ h.den > 0 /\ 0 <= h.num /\ h.num <= h.den

\* C1: for every valid parameter set, every iteration count is an integer
\* between 0 and max_iterations, the height generate_height_map returns is
\* that count divided by max_iterations, and every height lies in [0,1].
C1_HeightsInUnitInterval ==
  ValidParams =>
    /\ pc \in {"loop", "after_loop"} =>
         \A p \in DOMAIN output : output[p] \in 0 .. max_iterations
    /\ Returned =>
         /\ DOMAIN ret.height_map = Cells(width, height)
         /\ \A p \in DOMAIN output : output[p] \in 0 .. max_iterations
         /\ \A p \in DOMAIN ret.height_map : InUnitInterval(ret.height_map[p])
         /\ call.op = "generate_height_map" =>
              \A p \in DOMAIN ret.height_map :
                LET h == ret.height_map[p]
                IN h.num * max_iterations = output[p] * h.den

\* C1 witness: a valid call returned a map holding a height strictly inside
\* (0,1), the height 0 and the height 1
C1_Witness ==
  /\ ValidParams /\ Returned /\ call.op = "generate_height_map"
  /\ \E p, q, r \in DOMAIN ret.height_map :
       /\ ret.height_map[p].num = 0
       /\ ret.height_map[q].num = ret.height_map[q].den
       /\ 0 < ret.height_map[r].num /\ ret.height_map[r].num < ret.height_map[r].den

\* The reference iteration of one cell: the index k at which |z| first
\* exceeds 2.0 under z <- z^2 + c from z = 0, or n when it does not within
\* n iterations
RECURSIVE EscapeFrom(_, _, _, _)
EscapeFrom(zz, cc, k, n) ==
  IF k >= n THEN n
  ELSE IF Diverged(SqAdd(zz, cc)) THEN k
  ELSE EscapeFrom(SqAdd(zz, cc), cc, k + 1, n)

EscapeIndex(cc, n) == EscapeFrom(Zero, cc, 0, n)

\* C2: every cell's count is the index of its first escape under the
\* reference iteration, max_iterations if it never escapes; a cell that has
\* escaped keeps the index of its first escape through the later iterations.
C2_FirstEscapeIndex ==
  /\ pc \in {"loop", "after_loop"} =>
       \A p \in DOMAIN c :
         /\ p \notin mask => /\ output[p] = EscapeIndex(c[p], max_iterations)
                             /\ output[p] < max_iterations
         /\ p \in mask => EscapeIndex(c[p], i) = i
  /\ Returned =>
       \A p \in DOMAIN c : output[p] = EscapeIndex(c[p], max_iterations)

\* C2 witness: the loop is running, one cell escaped at an earlier iteration
\* and another is still iterated
C2_Witness ==
  /\ pc = "loop" /\ i >= 2 /\ mask # {}
  /\ \E p \in DOMAIN c : p \notin mask /\ output[p] < i - 1

\* The loop body run for every k of lo .. hi-1 in turn, never leaving early
\* (the range is halved to keep the evaluation shallow)
RECURSIVE RunAll(_, _, _, _)
RunAll(st, cc, lo, hi) ==
  IF lo >= hi THEN st
  ELSE IF hi = lo + 1 THEN LoopBody(st, cc, lo)
  ELSE LET mid == (lo + hi) \div 2
           half == RunAll(st, cc, lo, mid)
       IN IF DOMAIN half.output = DOMAIN cc
          THEN RunAll(half, cc, mid, hi) ELSE half

WithoutBreak(cc, n) ==
  LET st == RunAll([z |-> [p \in DOMAIN cc |-> Zero],
                    output |-> [p \in DOMAIN cc |-> 0],
                    mask |-> DOMAIN cc], cc, 0, n)
  IN FillNeverEscaped(st.output, st.mask, n)

\* C3: the grid of counts returned is the grid the loop yields when it runs
\* all max_iterations iterations without the early break.
C3_EarlyExitUnobservable ==
  Returned => output = WithoutBreak(c, max_iterations)

\* C3 witness: a call returned after leaving the loop early, at least two
\* iterations before the cap, with cells that escaped at different indexes
C3_Witness ==
  /\ Returned /\ mask = {} /\ i + 2 < max_iterations
  /\ \E p, q \in DOMAIN c : output[p] # output[q]

\* C4: a call with max_iterations <= 0, width <= 0, height <= 0 or zoom <= 0
\* is rejected with InvalidParameter before any computation; no height map
\* is returned.
C4_InvalidRejected ==
  (~ValidParams /\ call.op # "none") =>
    /\ pc = "idle"
    /\ ret.kind = "error"
    /\ ret.error = "InvalidParameter"

\* ------------------------------------ the claims, ReplaySpec and AssetSpec
\* find_placement_locations has returned to its caller
FindReturned == acall.op = "find_placement_locations"

\* place_assets has returned to its caller
PlaceReturned == acall.op = "place_assets"

\* The watched call has returned before, and has returned again just now
Replayed == acall = probe /\ probe_n >= 2

\* C5: a call of find_placement_locations with an integer seed returns what
\* the same call (same height map, category, density and seed) returned the
\* first time, whatever ran before or between the two calls.
C5_FindDeterministic ==
  (FindReturned /\ acall.seed.some /\ Replayed) => aret = probe_ret

\* C5 witness: a seeded call returned a second time, after another call had
\* returned in between, with a site chosen among several eligible cells
C5_Witness ==
  /\ FindReturned /\ acall.seed.some /\ Replayed /\ probe_gap
  /\ aret.kind = "ok" /\ Len(aret.sites) >= 1
  /\ Cardinality(CombinedMask(height_map, PropsOf(asset_types, acall.asset_type))) >= 2

\* The master seed of the call is given, as the argument or in world_params
MasterSeedGiven == acall.seed.some \/ acall.world_params.seed.some

\* C6: a call of place_assets with a given master seed returns the manifest
\* (seed, count, assets with their properties and positions, in order) that
\* the same call returned the first time, whatever ran between the two calls.
C6_PlaceReproducible ==
  (PlaceReturned /\ MasterSeedGiven /\ Replayed) => aret = probe_ret

\* C6 witness: a call with a master seed returned a second time, after another
\* call had returned in between, with a manifest of at least two assets
C6_Witness ==
  /\ PlaceReturned /\ MasterSeedGiven /\ Replayed /\ probe_gap
  /\ aret.kind = "ok" /\ aret.manifest.count >= 2

\* The eligibility predicate of profile pr at cell p = (y, x) of hm: the
\* height range, the slope range, and the predicate of the placement kind
Eligible(hm, pr, p) ==
  LET sf == NormalizedSlope(hm)
      h == hm.v[p]
  IN /\ pr.min_height <= h /\ h <= pr.max_height
     /\ SlopeGE(sf, p, pr.min_slope) /\ SlopeLE(sf, p, pr.max_slope)
     /\ pr.placement = "water" => h <= 30
     /\ pr.placement = "water_body" => h <= 30 /\ SlopeLE(sf, p, 10)
     /\ pr.placement = "water_flow" =>
          h <= 50 /\ SlopeGE(sf, p, 5) /\ SlopeLE(sf, p, 50)

\* C7: every site (x, y) returned by find_placement_locations for a
\* registered category lies in the grid and satisfies the eligibility
\* predicate of that category at height_map[y, x].
C7_SitesEligible ==
  (FindReturned /\ acall.asset_type \in DOMAIN asset_types) =>
    \A k \in 1 .. Len(aret.sites) :
      LET site == aret.sites[k]
      IN /\ InGrid(height_map, site[2], site[1])
         /\ Eligible(height_map, asset_types[acall.asset_type],
                     <<site[2], site[1]>>)

\* C7 witness: a site returned for 'water' on a map that is wider than high
\* or has a cell above 0.3 off the diagonal, so that (x, y) and (y, x) differ
C7_Witness ==
  /\ FindReturned /\ acall.asset_type = "water" /\ Len(aret.sites) >= 1
  /\ \E p \in DOMAIN height_map.v : height_map.v[p] > 30 /\ p[1] # p[2]
  /\ \E p \in DOMAIN height_map.v : height_map.v[p] <= 30 /\ p[1] # p[2]

\* C8: find_placement_locations returns without error; it returns no site
\* when no cell is eligible, and otherwise at least one site and at most as
\* many sites as there are eligible cells, for every density.
C8_SiteCountBounded ==
  FindReturned =>
    /\ aret.kind = "ok"
    /\ LET n == Cardinality(CombinedMask(height_map,
                              PropsOf(asset_types, acall.asset_type)))
       IN IF n = 0 THEN aret.sites = <<>>
          ELSE 1 <= Len(aret.sites) /\ Len(aret.sites) <= n

\* Every cell of the height map has the same value
Flat(hm) == \A p, q \in DOMAIN hm.v : hm.v[p] = hm.v[q]

\* C9: on a height map whose cells all have the same value, placement gets a
\* slope field that is zero in every cell, and does not divide by the zero
\* maximum.
C9_FlatSlopeZero ==
  (FindReturned /\ Flat(height_map)) =>
    /\ aret.kind = "ok"
    /\ LET sf == NormalizedSlope(height_map)
       IN /\ ~sf.divided
          /\ \A p \in DOMAIN sf.sq : sf.sq[p] = 0

\* The height map has a cell of height <= 0.3, a cell of height > 0.3
HasWater(hm) == \E p \in DOMAIN hm.v : hm.v[p] <= 30
HasLand(hm) == \E p \in DOMAIN hm.v : hm.v[p] > 30

\* C12: when the height map has no cell of height <= 0.3 or no cell of height
\* > 0.3, the water_crossing placement mask is empty and a call for 'bridge'
\* returns no site.
C12_NoCrossingWithoutBoth ==
  (FindReturned /\ acall.asset_type = "bridge"
     /\ (~HasWater(height_map) \/ ~HasLand(height_map))) =>
    /\ PlacementMask(height_map, NormalizedSlope(height_map),
                     asset_types["bridge"].placement) = {}
    /\ aret.sites = <<>>

\* C12 witness: a call for 'bridge' returned no site, without error, on a map
\* of water only whose cells all lie in the height and slope ranges of 'bridge'
C12_Witness ==
  /\ FindReturned /\ acall.asset_type = "bridge" /\ aret.kind = "ok"
  /\ aret.sites = <<>>
  /\ ~HasLand(height_map)
  /\ \A p \in DOMAIN height_map.v :
       /\ height_map.v[p] >= asset_types["bridge"].min_height
       /\ SlopeLE(NormalizedSlope(height_map), p, asset_types["bridge"].max_slope)

\* ------------------------------------------------------ the claims, MeshSpec
\* convert_to_3d_mesh_data has returned to its caller
MeshReturned == acall.op = "convert_to_3d_mesh_data"

\* C11: the mesh of a W x H height map has W*H vertices, 2*(W-1)*(H-1)
\* triangles and W*H normals, and every index of every triangle is a vertex
\* index of 0 .. W*H-1.
C11_MeshCounts ==
  MeshReturned =>
    /\ Len(aret.mesh.vertices) = height_map.w * height_map.h
    /\ Len(aret.mesh.faces) = 2 * (height_map.w - 1) * (height_map.h - 1)
    /\ Len(aret.mesh.normals) = height_map.w * height_map.h
    /\ \A k \in 1 .. Len(aret.mesh.faces) : \A n \in 1 .. 3 :
         aret.mesh.faces[k][n] \in 0 .. height_map.w * height_map.h - 1

\* C11 witness: the mesh of a 2 x 2 height map, with 4 vertices and 2
\* triangles, the second ending at the last vertex
C11_Witness ==
  /\ MeshReturned /\ height_map.w = 2 /\ height_map.h = 2
  /\ Len(aret.mesh.vertices) = 4 /\ Len(aret.mesh.faces) = 2
  /\ aret.mesh.faces[2] = <<1, 3, 2>>

\* The quantized variant was requested by the call
QuantizedRequested ==
  call.op = "generate_world_from_description"
    /\ Has(call.description, {"minecraft", "blocky"})

\* q is floor(count / n * 10) / 10: q = t/10, t an integer of 0..10, and
\* t/10 <= count/n < (t+1)/10
IsFloorTenth(q, count, n) ==
  /\ ~q.nan
  /\ QuantLevels % q.den = 0
  /\ LET t == q.num * (QuantLevels \div q.den)
     IN /\ t \in 0 .. QuantLevels
        /\ t * n <= QuantLevels * count
        /\ QuantLevels * count < (t + 1) * n

\* C10: for valid parameters, when the quantized variant is requested every
\* cell of the result is floor(height*10)/10 of the normalized height, one of
\* 0.0, 0.1, ..., 1.0; when it is not requested the result is the normalized
\* height itself.
C10_QuantizedTenths ==
  (ValidParams /\ Returned) =>
    \A p \in DOMAIN ret.height_map :
      IF QuantizedRequested
      THEN IsFloorTenth(ret.height_map[p], output[p], max_iterations)
      ELSE ret.height_map[p].num * max_iterations
             = output[p] * ret.height_map[p].den

\* C10 witness: a valid quantized world whose map holds a cell that the
\* quantization moved and a cell at a level strictly between 0 and 1
C10_Witness ==
  /\ ValidParams /\ Returned /\ QuantizedRequested
  /\ \E p, q \in DOMAIN ret.height_map :
       /\ ret.height_map[p].num * max_iterations # output[p] * ret.height_map[p].den
       /\ 0 < ret.height_map[q].num /\ ret.height_map[q].num < ret.height_map[q].den


\* ------------------------------------------------------- the claims, Spec
\* The fields of a generator as __init__ leaves them (lines 29-35)
FreshFields(constructed) ==
  [keys |-> Keys, center_x |-> Dec(-5, 10), center_y |-> 0, zoom |-> Q,
   max_iterations |-> constructed]

\* The parameters in effect when a generator whose fields are base is called
\* with params
Overridden(base, params) ==
  [keys |-> Keys,
   center_x |-> IF "center_x" \in params.keys
                THEN params.center_x ELSE base.center_x,
   center_y |-> IF "center_y" \in params.keys
                THEN params.center_y ELSE base.center_y,
   zoom |-> IF "zoom" \in params.keys THEN params.zoom ELSE base.zoom,
   max_iterations |-> IF "max_iterations" \in params.keys
                      THEN params.max_iterations ELSE base.max_iterations]

HeightsOf(cc, n) == Normalize(WithoutBreak(cc, n), n)

WindowGrid(eff) ==
  Grid(eff.center_x - Dec(15 * Q, 10) \div eff.zoom,
       eff.center_x + Dec(15 * Q, 10) \div eff.zoom,
       eff.center_y - Dec(10 * Q, 10) \div eff.zoom,
       eff.center_y + Dec(10 * Q, 10) \div eff.zoom, width, height)

FreshOutcome(world, blocky, reported, eff) ==
  IF eff.zoom = 0 THEN Raised("ZeroDivisionError", NoParams)
  ELSE IF width < 0 \/ height < 0 THEN Raised("ValueError", NoParams)
  ELSE [kind |-> "ok", error |-> "",
        height_map |->
          IF world /\ blocky
          THEN [p \in Cells(width, height) |->
                  Quantize(HeightsOf(WindowGrid(eff), eff.max_iterations)[p])]
          ELSE HeightsOf(WindowGrid(eff), eff.max_iterations),
        parameters |-> IF world THEN reported ELSE NoParams]

\* What the call cl returns on a generator just constructed with this
\* generator's width and height and with max_iterations = constructed
OnFresh(cl, constructed) ==
  IF cl.op = "generate_world_from_description"
  THEN FreshOutcome(TRUE, Blocky(cl.description),
                    KeywordChain(FreshFields(constructed), cl.description),
                    KeywordChain(FreshFields(constructed), cl.description))
  ELSE FreshOutcome(FALSE, FALSE, NoParams,
                    Overridden(FreshFields(constructed), cl.params))

\* C13: after any earlier calls on the same generator, a call returns the
\* same height map and the same reported parameters as that call made on a
\* freshly constructed generator with the same width and height and with the
\* max_iterations this generator was constructed with (one of
\* ConstructedIterations).
C13_NoStateAcrossCalls ==
  (pc = "idle" /\ call.op # "none")
    => \E constructed \in ConstructedIterations : ret = OnFresh(call, constructed)

\* ------------------------------------- the claims, AssetSpec: each call
\* The step of a call: the call starts in the unprimed state and has returned
\* in the primed one
CallStep(op) == acall.op = "none" /\ acall'.op = op

Unknown(asset_type) == asset_type \notin DOMAIN asset_types

\* The registry with the tree profile entered for every entity that has none
TreeForUnknown(types, entities) ==
  [t \in DOMAIN types \cup {entities[k] : k \in DOMAIN entities} |->
     IF t \in DOMAIN types THEN types[t] ELSE types["tree"]]

C14_FindStep ==
  (CallStep("find_placement_locations") /\ Unknown(acall'.asset_type))
    => aret' = Found(FindPlacementLocations(height_map, asset_types, "tree",
                       acall'.density, acall'.seed, np_state)).ret

C14_PropertiesStep ==
  (CallStep("generate_asset_properties") /\ Unknown(acall'.asset_type))
    => aret'.props =
         [GenerateAssetProperties(asset_types, "tree", acall'.seed, np_state).props
            EXCEPT !.type = acall'.asset_type]

C14_PlaceStep ==
  (CallStep("place_assets")
     /\ \E k \in DOMAIN Entities(acall'.world_params) :
          Unknown(Entities(acall'.world_params)[k]))
    => aret' = Placed(PlaceAssets(height_map,
                        TreeForUnknown(asset_types, Entities(acall'.world_params)),
                        acall'.world_params, acall'.seed, np_state)).ret

\* C14: a category that is not registered is placed and synthesized as
\* 'tree': find_placement_locations returns the sites it returns for 'tree'
\* on the same height map with the same density and seed,
\* generate_asset_properties draws the height, width, colour and rotation it
\* draws for 'tree' with the same seed, and place_assets goes on to the
\* categories that follow it.
C14_UnknownCategoryAsTree ==
  [][C14_FindStep /\ C14_PropertiesStep /\ C14_PlaceStep]_vars

\* Sites were found for an unregistered category
C14_Witness ==
  /\ acall.op = "find_placement_locations"
  /\ Unknown(acall.asset_type)
  /\ aret.kind = "ok"
  /\ Len(aret.sites) >= 1

\* ------------------------------------------- the claims, AssetSpec: seeds
NoSeedAnywhere == ~acall.seed.some /\ ~acall.world_params.seed.some

\* place_assets called again with the same height map and parameters and
\* the seed sd, from the random state x
PlacedAgain(sd, x) ==
  Placed(PlaceAssets(height_map, asset_types, acall.world_params, SomeSeed(sd), x)).ret

\* C15: place_assets called with no seed argument and no 'seed' in
\* world_params does not fail, reports the master seed it chose in the
\* manifest's 'seed', and a later call with the same height map and
\* parameters and that seed returns the same assets in the same order; with a
\* seed supplied the manifest's 'seed' is that seed, the argument before
\* world_params['seed'].
C15_SeedChosenAndReported ==
  acall.op = "place_assets" =>
    /\ NoSeedAnywhere =>
         /\ aret.kind = "ok"
         /\ \A x \in RngStates :
              /\ PlacedAgain(aret.manifest.seed, x).kind = "ok"
              /\ PlacedAgain(aret.manifest.seed, x).manifest.assets
                   = aret.manifest.assets
    /\ (aret.kind = "ok" /\ acall.seed.some)
         => aret.manifest.seed = acall.seed.val
    /\ (aret.kind = "ok" /\ ~acall.seed.some /\ acall.world_params.seed.some)
         => aret.manifest.seed = acall.world_params.seed.val

\* C16: find_placement_locations and generate_asset_properties draw from a
\* generator local to the call: a call leaves the random state that other
\* callers draw from (and from which place_assets picks a master seed when
\* none is supplied) as it found it.
C16_RandomStateUntouched ==
  [][(CallStep("find_placement_locations")
        \/ CallStep("generate_asset_properties")) => np_state' = np_state]_vars

\* ------------------------------------- the claims, AssetSpec: site counts
\* The number of eligible cells of hm for profile pr; the slope of a flat map
\* is zero at every cell
EligibleCount(hm, pr) ==
  Cardinality(MaskWith(hm,
                       IF Flat(hm) THEN NormalizedBy([p \in Cells(hm.w, hm.h) |-> 0])
                       ELSE NormalizedSlope(hm),
                       pr))

\* floor(sqrt(n) * 0.1)
FloorSqrtTenth(n) ==
  CHOOSE b \in 0 .. n : 100 * b * b <= n /\ 100 * (b + 1) * (b + 1) > n

\* min(n, max(1, floor(floor(sqrt(n) * 0.1) * d))), d in hundredths
ExpectedCount(n, d) ==
  LET scaled == (FloorSqrtTenth(n) * d) \div 100
      atLeastOne == IF scaled > 1 THEN scaled ELSE 1
  IN IF atLeastOne < n THEN atLeastOne ELSE n

SitesAsCounted(n) ==
  n >= 1 =>
    /\ aret.kind = "ok"
    /\ Len(aret.sites) = ExpectedCount(n, acall.density)
    /\ n < 100 => Len(aret.sites) = 1

\* C17: with N >= 1 eligible cells and density d, find_placement_locations
\* returns exactly min(N, max(1, floor(floor(sqrt(N) * 0.1) * d))) sites, and
\* exactly 1 site whenever N < 100.
C17_ExactSiteCount ==
  FindReturned =>
    SitesAsCounted(EligibleCount(height_map,
                                 PropsOf(asset_types, acall.asset_type)))

\* ---------------------------------- the claims, AssetSpec: the manifest
ManifestReturned == acall.op = "place_assets" /\ aret.kind = "ok"

\* The resolved category list of the call that returned
PlacedEntities == Entities(acall.world_params)

\* The sites find_placement_locations returns for category ei (0-indexed) with
\* seed m + ei, m the master seed reported, whatever the random state x
SitesDrawn(ei, x) ==
  FindPlacementLocations(height_map, asset_types, PlacedEntities[ei + 1],
                         acall.world_params.entity_density,
                         SomeSeed(aret.manifest.seed + ei), x).sites

\* What generate_asset_properties returns for site j (0-indexed) of category
\* ei with seed m + ei + j, whatever the random state x
Synthesized(ei, j, x) ==
  GenerateAssetProperties(asset_types, PlacedEntities[ei + 1],
                          SomeSeed(aret.manifest.seed + ei + j), x).props

HasProperties(asset, props) ==
  /\ asset.type = props.type /\ asset.height = props.height
  /\ asset.width = props.width /\ asset.color = props.color
  /\ asset.rotation = props.rotation

At(asset, site) == asset.position.x = site[1] /\ asset.position.y = site[2]

\* The assets from position first + 1 on are those of the categories ei,
\* ei + 1, ...: each category's sites are the sites drawn with its seed, and
\* each asset has the properties synthesized with its seed
RECURSIVE SeededFrom(_, _, _)
RECURSIVE SeededCategory(_, _, _, _)
SeededCategory(ei, first, sites, x) ==
  /\ first + Len(sites) <= Len(aret.manifest.assets)
  /\ \A j \in 0 .. Len(sites) - 1 :
       /\ At(aret.manifest.assets[first + j + 1], sites[j + 1])
       /\ HasProperties(aret.manifest.assets[first + j + 1], Synthesized(ei, j, x))
  /\ SeededFrom(ei + 1, first + Len(sites), x)
SeededFrom(ei, first, x) ==
  IF ei >= Len(PlacedEntities) THEN first = Len(aret.manifest.assets)
  ELSE SeededCategory(ei, first, SitesDrawn(ei, x), x)

\* C18: with master seed m, the sites of the i-th category are those found
\* with seed m + i and the asset at its j-th site has the properties
\* synthesized with seed m + i + j; nothing else (the random state the call
\* started from, the seeds of other categories) enters the result.
C18_SeedsDerived ==
  ManifestReturned => \A x \in RngStates : SeededFrom(0, 0, x)

\* A category with two sites came second or later: its seeds are m + i and
\* m + i + 1, i >= 1
C18_Witness ==
  /\ ManifestReturned
  /\ \E ei \in 1 .. Len(PlacedEntities) - 1 : Len(SitesDrawn(ei, 0)) >= 1
  /\ \E ei \in 0 .. Len(PlacedEntities) - 1 : Len(SitesDrawn(ei, 0)) >= 2

\* The sites drawn for category ei, each with its category
Listed(ei, sites) ==
  [k \in 1 .. Len(sites) |->
     [type |-> PlacedEntities[ei + 1], x |-> sites[k][1], y |-> sites[k][2]]]

\* The sites drawn for the categories ei, ei + 1, ..., a category after the
\* other and each category's sites in the order they were drawn
RECURSIVE DrawnInOrder(_)
DrawnInOrder(ei) ==
  IF ei >= Len(PlacedEntities) THEN <<>>
  ELSE Listed(ei, SitesDrawn(ei, 0)) \o DrawnInOrder(ei + 1)

ListedAs(manifest, drawn) ==
  /\ manifest.count = Len(manifest.assets)
  /\ Len(manifest.assets) = Len(drawn)
  /\ \A k \in 1 .. Len(drawn) :
       /\ manifest.assets[k].type = drawn[k].type
       /\ manifest.assets[k].position.x = drawn[k].x
       /\ manifest.assets[k].position.y = drawn[k].y

\* C19: the manifest lists the assets category after category and, within a
\* category, in the order its sites were drawn; the position (x, y) of each
\* asset is its site, and 'count' is the length of 'assets', the number of
\* sites found over all categories.
C19_ManifestInDrawnOrder ==
  ManifestReturned => ListedAs(aret.manifest, DrawnInOrder(0))

\* Two sites of one category, and a second category
C19_Witness ==
  /\ ManifestReturned
  /\ \E k \in 1 .. Len(aret.manifest.assets) - 1 :
       /\ aret.manifest.assets[k].type = aret.manifest.assets[k + 1].type
       /\ aret.manifest.assets[k].position # aret.manifest.assets[k + 1].position
  /\ \E k \in 1 .. Len(aret.manifest.assets) - 1 :
       aret.manifest.assets[k].type # aret.manifest.assets[k + 1].type

\* C20: the sites one find_placement_locations call returns are pairwise
\* distinct, and every site (x, y) is a cell of the W x H height map:
\* 0 <= x < W and 0 <= y < H.
C20_SitesDistinctInGrid ==
  FindReturned =>
    /\ \A k, l \in 1 .. Len(aret.sites) : k # l => aret.sites[k] # aret.sites[l]
    /\ \A k \in 1 .. Len(aret.sites) :
         /\ 0 <= aret.sites[k][1] /\ aret.sites[k][1] < height_map.w
         /\ 0 <= aret.sites[k][2] /\ aret.sites[k][2] < height_map.h

\* Two sites were returned
C20_Witness == FindReturned /\ aret.kind = "ok" /\ Len(aret.sites) >= 2

\* ------------------------------- the claims, AssetSpec: the properties
PropertiesReturned == acall.op = "generate_asset_properties" /\ aret.kind = "ok"

\* Every range of the profile has its lower bound at or below its upper bound
WellFormed(pr) ==
  /\ pr.height_range[1] <= pr.height_range[2]
  /\ pr.width_range[1] <= pr.width_range[2]
  /\ \A ch \in 1 .. 3 : pr.color_range[1][ch] <= pr.color_range[2][ch]

\* v, in units of 1 / (100 * RngMod), lies in [lo, hi], lo and hi in hundredths
Within(v, lo, hi) == lo * RngMod <= v /\ v <= hi * RngMod

InRanges(props, pr) ==
  /\ Within(props.height, pr.height_range[1], pr.height_range[2])
  /\ Within(props.width, pr.width_range[1], pr.width_range[2])
  /\ \A ch \in 1 .. 3 :
       Within(props.color[ch], pr.color_range[1][ch], pr.color_range[2][ch])
  /\ 0 <= props.rotation /\ props.rotation < 36000 * RngMod

\* C21: for a category with a well-formed profile, generate_asset_properties
\* returns a height in height_range, a width in width_range, each colour
\* channel between its two bounds and a rotation in [0, 360); a call with the
\* same category and seed returns the same properties from every random state.
C21_PropertiesInRanges ==
  (PropertiesReturned /\ WellFormed(PropsOf(asset_types, acall.asset_type))) =>
    /\ InRanges(aret.props, PropsOf(asset_types, acall.asset_type))
    /\ acall.seed.some =>
         \A x \in RngStates :
           GenerateAssetProperties(asset_types, acall.asset_type, acall.seed, x).props
             = aret.props

\* Seeded properties of a registered category whose ranges are not single
\* points were returned
C21_Witness ==
  /\ PropertiesReturned /\ acall.seed.some
  /\ acall.asset_type \in DOMAIN asset_types
  /\ WellFormed(asset_types[acall.asset_type])
  /\ aret.props.height > asset_types[acall.asset_type].height_range[1] * RngMod
  /\ aret.props.rotation > 0

\* ------------------------- the claims, AssetSpec: assets and the mesh
\* Every asset of the manifest stands at the height of its cell, scaled by
\* 50, which is the z of vertex y * W + x (0-based) of the mesh
OnMesh(assets, hm, mesh) ==
  \A k \in 1 .. Len(assets) :
    /\ assets[k].position.z
         = hm.v[<<assets[k].position.y, assets[k].position.x>>] * 50
    /\ assets[k].position.z
         = mesh.vertices[assets[k].position.y * hm.w + assets[k].position.x + 1][3]

\* C22: every asset place_assets puts at cell (x, y) has position
\* z = height_map[y, x] * 50.0, the z coordinate of vertex number y * W + x
\* of the mesh convert_to_3d_mesh_data builds from the same height map with
\* its default scale factor.
C22_AssetsOnMesh ==
  ManifestReturned =>
    OnMesh(aret.manifest.assets, height_map,
           ConvertTo3dMeshData(height_map, DefaultScaleFactor))

\* An asset stands on a cell whose height differs from that of the cell
\* mirrored in the diagonal, or on a map that is not square
C22_Witness ==
  /\ ManifestReturned
  /\ \E k \in 1 .. Len(aret.manifest.assets) :
       LET a == aret.manifest.assets[k].position
       IN /\ a.x # a.y
          /\ \/ height_map.w # height_map.h
             \/ height_map.v[<<a.y, a.x>>] # height_map.v[<<a.x, a.y>>]

\* ------------------------------------------ the claims, MeshSpec: faces
\* Twice the signed area of triangle t in the grid of width w, vertex n
\* standing at column n mod w of row n div w
Winding(t, w) ==
  ((t[2] % w) - (t[1] % w)) * ((t[3] \div w) - (t[1] \div w))
    - ((t[2] \div w) - (t[1] \div w)) * ((t[3] % w) - (t[1] % w))

\* The triangle joins two neighbouring columns only
InOneCell(t, w) ==
  \E col \in 0 .. w - 2 : \A n \in 1 .. 3 : t[n] % w \in {col, col + 1}

TrianglesOfCells(faces, w, h) ==
  /\ Len(faces) = 2 * (w - 1) * (h - 1)
  /\ \A y \in 0 .. h - 2 : \A x \in 0 .. w - 2 :
       /\ faces[2 * (y * (w - 1) + x) + 1]
            = <<y * w + x, y * w + x + 1, y * w + x + w>>
       /\ faces[2 * (y * (w - 1) + x) + 2]
            = <<y * w + x + 1, y * w + x + w + 1, y * w + x + w>>
  /\ \A k, l \in 1 .. Len(faces) : Winding(faces[k], w) = Winding(faces[l], w)
  /\ \A k \in 1 .. Len(faces) : InOneCell(faces[k], w)

\* C23: the triangles are, for the grid cells (x, y) with x < W-1 and
\* y < H-1 in row-major order and i = y*W + x, the triples (i, i+1, i+W) and
\* then (i+1, i+W+1, i+W); all have the same winding, and none joins the
\* last column of a row to the first column of the next.
C23_TrianglesPerCell ==
  MeshReturned => TrianglesOfCells(aret.mesh.faces, height_map.w, height_map.h)

\* A mesh of at least two cells per row and two rows of cells
C23_Witness ==
  /\ MeshReturned /\ height_map.w >= 3 /\ height_map.h >= 3
  /\ Len(aret.mesh.faces) >= 8


\* ------------------------------------------ the claims, FrameSpec: the frame
\* json.load of one asset file that has both keys
AssetFile(asset_type, properties) ==
  [asset_type |-> asset_type, properties |-> properties]

\* load_custom_assets: every asset file read enters its profile under its name
RECURSIVE LoadCustomAssets(_, _)
LoadCustomAssets(types, files) ==
  IF files = <<>> THEN types
  ELSE LoadCustomAssets(
         [t \in DOMAIN types \cup {Head(files).asset_type} |->
            IF t = Head(files).asset_type THEN Head(files).properties
            ELSE types[t]],
         Tail(files))

\* The asset files of the directories the generator is constructed with: no
\* directory, a new category, a new category and a built-in one replaced
AssetsDirArgs ==
  {<<>>,
   <<AssetFile("dragon", Profile(100, 300, 100, 300, <<50, 0, 0>>, <<90, 10, 0>>,
                                 "land", 30, 100, 0, 100))>>,
   <<AssetFile("dragon", Profile(100, 300, 100, 300, <<50, 0, 0>>, <<90, 10, 0>>,
                                 "air", 0, 100, 0, 100)),
     AssetFile("tree", Profile(200, 900, 50, 300, <<0, 20, 0>>, <<0, 60, 0>>,
                               "land", 20, 100, 0, 100))>>}

\* self.asset_types when __init__ returns
Constructed(files) == LoadCustomAssets(BuiltinAssetTypes, files)

\* The asset engine constructed with any of the directories, and the mesh
\* builder, over the height maps of ReplayMaps
FrameSpecInit ==
  /\ GenIdle
  /\ NlpIdle
  /\ asset_types \in {Constructed(files) : files \in AssetsDirArgs}
  /\ height_map \in ReplayMaps
  /\ np_state \in RngStates
  /\ acall = NoACall
  /\ aret = NoARet
  /\ probe = NoACall
  /\ probe_ret = NoARet
  /\ probe_n = 0
  /\ probe_gap = FALSE

FrameNext ==
  \/ AssetNext
  \/ CallConvertTo3dMeshData

FrameSpec == FrameSpecInit /\ [][FrameNext]_vars

FrameOps ==
  {"find_placement_locations", "generate_asset_properties", "place_assets",
   "convert_to_3d_mesh_data"}

DipMap(side) ==
  HeightMapOf(side, side,
    [p \in Cells(side, side) |->
       IF p = <<side \div 2, side \div 2>> THEN 60 ELSE 100])

\* Patterned maps wider than the 5-cell neighbourhood, and a map whose
\* neighbourhood has the even side EvenSide / 20
DepressionMaps ==
  {HeightMapOf(DepW, DepH,
     [p \in Cells(DepW, DepH) |->
        Levels[((ab[1] * p[2] + ab[2] * p[1] + k) % Len(Levels)) + 1]]) :
     ab \in {<<0, 0>>, <<1, 0>>, <<0, 1>>, <<1, 1>>, <<1, 2>>},
     k \in 0 .. Len(Levels) - 1}
  \cup {DipMap(EvenSide)}

DepressionTypeArgs == {"valley", "canyon"}

CallFindDepressions ==
  \E at \in DepressionTypeArgs, d \in {50, 200} :
    Returns(ACall("find_placement_locations", at, d, SomeSeed(MaxSeed),
                  NoWorldParams),
            Found(FindPlacementLocations(height_map, asset_types, at, d,
                                         SomeSeed(MaxSeed), np_state)))

DepressionNext ==
  \/ CallFindDepressions
  \/ TakeResult

\* The large map is searched from one random state only
DepressionSpecInit ==
  /\ GenIdle
  /\ NlpIdle
  /\ AssetInitWith(DepressionMaps, {NoACall})
  /\ (height_map.w >= EvenSide => np_state = 0)

DepressionSpec == DepressionSpecInit /\ [][DepressionNext]_vars

\* find_placement_locations returned for a land_depression category
DepressionFound ==
  /\ acall.op = "find_placement_locations"
  /\ PropsOf(asset_types, acall.asset_type).placement = "land_depression"
  /\ aret.kind = "ok"

\* The least height among the cells of the grid at most r rows and r columns
\* away from p
MinAround(hm, p, r) ==
  LET rows == (IF p[1] > r THEN p[1] - r ELSE 0) ..
                (IF p[1] + r < hm.h THEN p[1] + r ELSE hm.h - 1)
      cols == (IF p[2] > r THEN p[2] - r ELSE 0) ..
                (IF p[2] + r < hm.w THEN p[2] + r ELSE hm.w - 1)
      vals == {hm.v[<<y, x>>] : y \in rows, x \in cols}
  IN CHOOSE a \in vals : \A b \in vals : a <= b

\* The mask m holds exactly the cells less than 0.1 above the least height of
\* the square that reaches r cells to every side of them
IsCentredMask(m, hm, r) ==
  \A p \in Cells(hm.w, hm.h) :
    (p \in m) <=> (hm.v[p] - MinAround(hm, p, r) < 10)

\* C25: for a land_depression category the placement mask is the set of cells
\* whose height is less than 0.1 above the least height of the square of side
\* max(5, min(W, H) div 20) centred on them (reaching (side - 1) div 2 or
\* side div 2 cells to every side, the same for all cells of the map), cells
\* near the border and even sides included.
C25_CentredNeighbourhood ==
  DepressionFound =>
    \E r \in {(NeighborhoodSize(height_map) - 1) \div 2,
               NeighborhoodSize(height_map) \div 2} :
      IsCentredMask(PlacementMask(height_map, NormalizedSlope(height_map),
                                  "land_depression"),
                    height_map, r)

\* The same on the maps whose neighbourhood side is odd
C25_OddSides ==
  (DepressionFound /\ NeighborhoodSize(height_map) % 2 = 1) =>
    IsCentredMask(PlacementMask(height_map, NormalizedSlope(height_map),
                                "land_depression"),
                  height_map, (NeighborhoodSize(height_map) - 1) \div 2)

\* A border cell and an inner cell of a map wider and higher than the
\* neighbourhood are in the mask, and some cell is not
C25_OddWitness ==
  /\ DepressionFound
  /\ NeighborhoodSize(height_map) < height_map.w
  /\ NeighborhoodSize(height_map) < height_map.h
  /\ \E p, q \in PlacementMask(height_map, NormalizedSlope(height_map),
                               "land_depression") :
       p[1] = 0 /\ q[1] \in 1 .. height_map.h - 2 /\ q[2] \in 1 .. height_map.w - 2
  /\ \E p \in Cells(height_map.w, height_map.h) :
       p \notin PlacementMask(height_map, NormalizedSlope(height_map),
                              "land_depression")


\* ------------------------------------ the claims, AssetSpec: water crossings
\* find_placement_locations returned for a water_crossing category
CrossingFound ==
  /\ acall.op = "find_placement_locations"
  /\ PropsOf(asset_types, acall.asset_type).placement = "water_crossing"
  /\ aret.kind = "ok"

IsWater(hm, p) == hm.v[p] <= 30

Orthogonal(p) ==
  {<<p[1] - 1, p[2]>>, <<p[1] + 1, p[2]>>, <<p[1], p[2] - 1>>, <<p[1], p[2] + 1>>}

Diagonal(p) ==
  {<<p[1] - 1, p[2] - 1>>, <<p[1] - 1, p[2] + 1>>,
   <<p[1] + 1, p[2] - 1>>, <<p[1] + 1, p[2] + 1>>}

\* The cells among near that lie in the grid and are land where p is water,
\* water where p is land
Opposite(hm, p, near) ==
  {q \in near \cap Cells(hm.w, hm.h) : IsWater(hm, q) # IsWater(hm, p)}

\* C26: for a water_crossing category a cell is in the placement mask if and
\* only if one of its four orthogonal neighbours lies in the grid and is land
\* where the cell is water (height <= 0.3), water where the cell is land; the
\* sites returned are such cells.
C26_CrossingIffOppositeNeighbour ==
  CrossingFound =>
    /\ PlacementMask(height_map, NormalizedSlope(height_map), "water_crossing")
         = {p \in Cells(height_map.w, height_map.h) :
              Opposite(height_map, p, Orthogonal(p)) # {}}
    /\ \A k \in 1 .. Len(aret.sites) :
         Opposite(height_map, <<aret.sites[k][2], aret.sites[k][1]>>,
                  Orthogonal(<<aret.sites[k][2], aret.sites[k][1]>>)) # {}

\* A site was returned for a water_crossing category on a map with a cell
\* whose only neighbours of the other class are diagonal ones
C26_Witness ==
  /\ CrossingFound
  /\ Len(aret.sites) >= 1
  /\ \E p \in Cells(height_map.w, height_map.h) :
       /\ Opposite(height_map, p, Orthogonal(p)) = {}
       /\ Opposite(height_map, p, Diagonal(p)) # {}
       /\ p \notin PlacementMask(height_map, NormalizedSlope(height_map),
                                 "water_crossing")


\* ------------------------------------ the claims, AssetSpec: aliased seeds
\* The number of sites of the categories ei, ei + 1, ... of the run
RECURSIVE SiteCounts(_)
SiteCounts(ei) ==
  IF ei >= Len(PlacedEntities) THEN <<>>
  ELSE <<Len(SitesDrawn(ei, 0))>> \o SiteCounts(ei + 1)

\* The position in the manifest before the first asset of category ei
RECURSIVE FirstOf(_, _)
FirstOf(counts, ei) ==
  IF ei = 0 THEN 0 ELSE FirstOf(counts, ei - 1) + counts[ei]

\* The asset of site j (0-indexed) of category ei
InstanceAt(counts, ei, j) == aret.manifest.assets[FirstOf(counts, ei) + j + 1]

\* The instances of the run, as (category index, site index)
Instances(counts) ==
  {ij \in (0 .. Len(counts) - 1) \X (0 .. Len(aret.manifest.assets)) :
     ij[2] < counts[ij[1] + 1]}

SameProfile(ta, tb) == PropsOf(asset_types, ta) = PropsOf(asset_types, tb)

SameLook(a, b) ==
  /\ a.height = b.height /\ a.width = b.width
  /\ a.color = b.color /\ a.rotation = b.rotation

\* Instances with the same sum of indices and the same profile look alike
Aliased(counts) ==
  \A ij \in Instances(counts), kl \in Instances(counts) :
    (ij[1] + ij[2] = kl[1] + kl[2]
       /\ SameProfile(PlacedEntities[ij[1] + 1], PlacedEntities[kl[1] + 1])) =>
      SameLook(InstanceAt(counts, ij[1], ij[2]), InstanceAt(counts, kl[1], kl[2]))

\* The assets of category ei stand at the sites found with the seed s, and
\* the first of them has the properties synthesized with the seed s
FirstWithSeedOfSites(counts, ei, s, sites) ==
  /\ Len(sites) = counts[ei + 1]
  /\ \A j \in 0 .. Len(sites) - 1 : At(InstanceAt(counts, ei, j), sites[j + 1])
  /\ sites # <<>> =>
       HasProperties(InstanceAt(counts, ei, 0),
                     GenerateAssetProperties(asset_types, PlacedEntities[ei + 1],
                                             SomeSeed(s), 0).props)

FirstsWithSeedOfSites(counts) ==
  \A ei \in 0 .. Len(counts) - 1 :
    FirstWithSeedOfSites(
      counts, ei, aret.manifest.seed + ei,
      FindPlacementLocations(height_map, asset_types, PlacedEntities[ei + 1],
                             acall.world_params.entity_density,
                             SomeSeed(aret.manifest.seed + ei), 0).sites)

AliasSeen(counts) ==
  /\ <<0, 1>> \in Instances(counts) /\ <<1, 0>> \in Instances(counts)
  /\ PlacedEntities[1] # PlacedEntities[2]
  /\ SameProfile(PlacedEntities[1], PlacedEntities[2])
  /\ SameLook(InstanceAt(counts, 0, 1), InstanceAt(counts, 1, 0))
  /\ ~SameLook(InstanceAt(counts, 0, 0), InstanceAt(counts, 0, 1))
Processed == DOMAIN nlp_params # {}

\* C28: the parameters process_description returns satisfy the constraints
\* of GridParams for every description: max_iterations is an int greater
\* than 0, which range() accepts as the iteration cap, and zoom is greater
\* than 0.
C28_ParamsValid ==
  Processed =>
    /\ ~nlp_params.max_iterations.float
    /\ nlp_params.max_iterations.val > 0
    /\ nlp_params.zoom.val > 0
    /\ nlp_range # "TypeError"

\* What does hold: both values are greater than 0, and max_iterations is an
\* int unless two biomes were blended without positive sentiment
C28_PositiveValues ==
  Processed =>
    /\ nlp_params.max_iterations.val > 0
    /\ nlp_params.zoom.val > 0
    /\ nlp_params.max_iterations.float <=>
         (Len(ExtractKeywords(PreprocessText(nlp_description)).biomes) > 1
            /\ ~Above06(AnalyzeSentiment(PreprocessText(nlp_description)).positive))

=============================================================================
